---- MODULE Spec2Model ----
(***************************************************************************)
(* BookVerse backend (src/index.js, second listing, lines 242-1048): an    *)
(* express application whose handlers read the whole JSON document from    *)
(* data.json, validate, mutate the in-memory copy and write it back.       *)
(*                                                                         *)
(* A JavaScript value is a record [t, s, n]: t is the typeof tag, s the    *)
(* characters of a string (a sequence of one-character strings), n the     *)
(* value of a number (s names a number that is not finite: NaN, Infinity). *)
(* Strings are kept as character sequences so that                         *)
(* trim() and toUpperCase() are computed, not assumed.                     *)
(***************************************************************************)
EXTENDS Integers, Sequences, FiniteSets, TLC

\* At most MaxIds records are ever created in one run (uuidv4 calls).
MaxIds == 3

\* At most MaxOrders Orders are created in one run of the order requests, and
\* an Order has at most MaxItems line items.
MaxOrders == 2
MaxItems == 2

\* In a run that starts from a document that already holds records, and in a
\* run of overlapping requests, at most MaxAdded records are created.
MaxAdded == 2

\* At most MaxClients requests are in flight at once.
MaxClients == 2

---------------------------------------------------------------------------
\* JavaScript values

Undefined == [t |-> "undefined", s |-> <<>>, n |-> 0]
Null == [t |-> "null", s |-> <<>>, n |-> 0]
NaN == [t |-> "number", s |-> <<"NaN">>, n |-> 0]
\* What JSON.parse makes of a number too large for a double, such as 1e999
Infinity == [t |-> "number", s |-> <<"Infinity">>, n |-> 0]
Str(chars) == [t |-> "string", s |-> chars, n |-> 0]
Num(k) == [t |-> "number", s |-> <<>>, n |-> k]
Arr(elems) == [t |-> "array", s |-> elems, n |-> 0]

IsNaN(v) == v.t = "number" /\ v.s = <<"NaN">>
IsInfinity(v) == v.t = "number" /\ v.s = <<"Infinity">>

\* ToBoolean: the test of `x ? a : b`, `x || y`, `if (x)`, `!x`.
Truthy(v) ==
  CASE v.t = "string" -> v.s # <<>>
    [] v.t = "number" -> ~IsNaN(v) /\ (IsInfinity(v) \/ v.n # 0)
    [] v.t = "array" -> TRUE
    [] OTHER -> FALSE

\* a || b
Or(a, b) == IF Truthy(a) THEN a ELSE b

RECURSIVE TrimStart(_)
TrimStart(chars) ==
  IF chars # <<>> /\ Head(chars) = " " THEN TrimStart(Tail(chars)) ELSE chars

RECURSIVE TrimEnd(_)
TrimEnd(chars) ==
  IF chars # <<>> /\ chars[Len(chars)] = " "
  THEN TrimEnd(SubSeq(chars, 1, Len(chars) - 1))
  ELSE chars

\* String.prototype.trim on the characters of a string
Trim(chars) == TrimEnd(TrimStart(chars))

UpperOf(c) ==
  CASE c = "a" -> "A"
    [] c = "b" -> "B"
    [] c = "e" -> "E"
    [] c = "s" -> "S"
    [] c = "v" -> "V"
    [] OTHER -> c

\* String.prototype.toUpperCase on the characters of a string
ToUpperCase(chars) == [i \in 1..Len(chars) |-> UpperOf(chars[i])]

\* String(v)
ToStr(v) ==
  CASE v.t = "string" -> v.s
    [] v.t = "number" -> IF v.s # <<>> THEN v.s ELSE <<ToString(v.n)>>
    [] v.t = "null" -> <<"n", "u", "l", "l">>
    [] OTHER -> <<"u", "n", "d", "e", "f", "i", "n", "e", "d">>

isValidString(v) == v.t = "string" /\ Len(Trim(v.s)) > 0

\* a comparison with NaN is false; Infinity is above every number
isValidPrice(v) == v.t = "number" /\ ~IsNaN(v) /\ (IsInfinity(v) \/ v.n >= 0)

\* uuidv4(): the k-th identifier handed out; identifiers never repeat.
uuidv4(k) == Str(<<"#", ToString(k)>>)

\* new Date().toISOString()
Times == {<<"T", "1">>}

---------------------------------------------------------------------------
\* The persisted document

initial ==
  [authors |-> <<>>, books |-> <<>>, users |-> <<>>, categories |-> <<>>,
   publishers |-> <<>>, reviews |-> <<>>, orders |-> <<>>, coupons |-> <<>>]

\* data.json: absent (fs.readFile fails with ENOENT) or holding a document
NoFile == [exists |-> FALSE, doc |-> initial]
FileOf(doc) == [exists |-> TRUE, doc |-> doc]

\* readData handing out the empty document without writing it
readDataNotSaving(f) ==
  IF f.exists
  THEN [data |-> f.doc, file |-> f]
  ELSE [data |-> initial, file |-> f]

\* readData: the document read, and the file as readData leaves it
readData(f) ==
  IF f.exists
  THEN [data |-> f.doc, file |-> f]
  ELSE [data |-> initial, file |-> FileOf(initial)]

\* JSON.stringify writes a number that is not finite as null, so that is
\* what the next readData finds: of a value, of the objects of an array (the
\* items of an Order), of a record, of the document
jsonNumber(v) == IF v.t = "number" /\ v.s # <<>> THEN Null ELSE v

jsonValue(v) ==
  IF v.t = "array"
  THEN Arr([i \in 1..Len(v.s) |->
              [k \in DOMAIN v.s[i] |-> jsonNumber(v.s[i][k])]])
  ELSE jsonNumber(v)

jsonRecord(rec) == [k \in DOMAIN rec |-> jsonValue(rec[k])]

JSONstringify(data) ==
  [c \in DOMAIN data |-> [i \in 1..Len(data[c]) |-> jsonRecord(data[c][i])]]

\* writeData: the file after the write
writeData(data) == FileOf(JSONstringify(data))

\* arr.findIndex(x => x.id === id) + 1 (0 when nothing matches)
IndexOfId(arr, id) ==
  IF \E i \in 1..Len(arr) : arr[i].id = id
  THEN CHOOSE i \in 1..Len(arr) :
         arr[i].id = id /\ \A j \in 1..(i - 1) : arr[j].id # id
  ELSE 0

\* arr.some(x => x.id === id)
HasId(arr, id) == \E i \in 1..Len(arr) : arr[i].id = id

\* arr.filter(x => x.id !== id)
WithoutId(arr, id) == SelectSeq(arr, LAMBDA x : x.id # id)

\* What a handler leaves behind: the response status, whether it reached
\* writeData, and its in-memory copy of the document at that point.
Reply(status, data) == [status |-> status, write |-> FALSE, data |-> data]
Saved(status, data) == [status |-> status, write |-> TRUE, data |-> data]

\* One step of an update handler: st is [d, err]; once err is set the handler
\* has returned and later steps do nothing.
Cont(d) == [d |-> d, err |-> 0]
Fail(st, status) == [d |-> st.d, err |-> status]


IsUndef(v) == v.t = "undefined"

\* data[coll][idx][field] = val
SetField(data, coll, idx, field, val) ==
  [data EXCEPT ![coll] = [@ EXCEPT ![idx] = [@ EXCEPT ![field] = val]]]

\* data[coll].push(rec)
Push(data, coll, rec) == [data EXCEPT ![coll] = Append(@, rec)]

---------------------------------------------------------------------------
\* Authors (RF03)

postAuthorsPre(body) == IF ~isValidString(body.name) THEN 400 ELSE 0

postAuthors(data, body, id, now) ==
  LET newAuthor ==
        [id |-> id,
         name |-> Str(Trim(body.name.s)),
         biography |-> IF Truthy(body.biography)
                       THEN Str(Trim(ToStr(body.biography))) ELSE Str(<<>>),
         nationality |-> IF Truthy(body.nationality)
                         THEN Str(Trim(ToStr(body.nationality))) ELSE Null,
         createdAt |-> Str(now),
         updatedAt |-> Undefined]
  IN Saved(201, Push(data, "authors", newAuthor))

putAuthors(data, id, body, now) ==
  LET idx == IndexOfId(data.authors, id)
      s1 == IF IsUndef(body.name) THEN Cont(data)
            ELSE IF ~isValidString(body.name) THEN Fail(Cont(data), 400)
            ELSE Cont(SetField(data, "authors", idx, "name", Str(Trim(body.name.s))))
      s2 == IF s1.err # 0 \/ IsUndef(body.biography) THEN s1
            ELSE Cont(SetField(s1.d, "authors", idx, "biography",
                               Str(Trim(ToStr(body.biography)))))
      s3 == IF s2.err # 0 \/ IsUndef(body.nationality) THEN s2
            ELSE Cont(SetField(s2.d, "authors", idx, "nationality",
                               IF Truthy(body.nationality)
                               THEN Str(Trim(ToStr(body.nationality))) ELSE Null))
  IN IF idx = 0 THEN Reply(404, data)
     ELSE IF s3.err # 0 THEN Reply(s3.err, s3.d)
     ELSE Saved(200, SetField(s3.d, "authors", idx, "updatedAt", Str(now)))

\* deleteAuthors without its delete-guard
deleteAuthorsNoGuard(data, id) ==
  LET newAuthors == WithoutId(data.authors, id)
  IN IF Len(newAuthors) = Len(data.authors) THEN Reply(404, data)
     ELSE Saved(204, [data EXCEPT !.authors = newAuthors])

deleteAuthors(data, id) ==
  LET usedByBook == \E i \in 1..Len(data.books) : data.books[i].authorId = id
      newAuthors == WithoutId(data.authors, id)
  IN IF usedByBook THEN Reply(400, data)
     ELSE IF Len(newAuthors) = Len(data.authors) THEN Reply(404, data)
     ELSE Saved(204, [data EXCEPT !.authors = newAuthors])

---------------------------------------------------------------------------
\* Books (RF02)

postBooksPre(body) ==
  IF ~isValidString(body.title) THEN 400
  ELSE IF ~isValidPrice(body.price) THEN 400
  ELSE IF ~isValidString(body.authorId) THEN 400
  ELSE 0

\* postBooks without the lookup of the publisher
postBooksNoPublisherCheck(data, body, id, now) ==
  LET newBook ==
        [id |-> id,
         title |-> Str(Trim(body.title.s)),
         description |-> IF Truthy(body.description)
                         THEN Str(Trim(ToStr(body.description))) ELSE Str(<<>>),
         price |-> body.price,
         file |-> Or(body.file, Null),
         authorId |-> body.authorId,
         categoryId |-> Or(body.categoryId, Null),
         publisherId |-> Or(body.publisherId, Null),
         createdAt |-> Str(now),
         updatedAt |-> Undefined]
  IN IF ~HasId(data.authors, body.authorId) THEN Reply(400, data)
     ELSE Saved(201, Push(data, "books", newBook))

postBooks(data, body, id, now) ==
  LET newBook ==
        [id |-> id,
         title |-> Str(Trim(body.title.s)),
         description |-> IF Truthy(body.description)
                         THEN Str(Trim(ToStr(body.description))) ELSE Str(<<>>),
         price |-> body.price,
         file |-> Or(body.file, Null),
         authorId |-> body.authorId,
         categoryId |-> Or(body.categoryId, Null),
         publisherId |-> Or(body.publisherId, Null),
         createdAt |-> Str(now),
         updatedAt |-> Undefined]
  IN IF ~HasId(data.authors, body.authorId) THEN Reply(400, data)
     ELSE IF Truthy(body.publisherId) /\ ~HasId(data.publishers, body.publisherId)
     THEN Reply(400, data)
     ELSE Saved(201, Push(data, "books", newBook))

\* The steps of the update handler, in the order of the source; each takes
\* the handler's state st = [d, err] and leaves it alone once err is set.
putBooksTitle(st, idx, body) ==
  IF st.err # 0 \/ IsUndef(body.title) THEN st
  ELSE IF ~isValidString(body.title) THEN Fail(st, 400)
  ELSE Cont(SetField(st.d, "books", idx, "title", Str(Trim(body.title.s))))

putBooksDescription(st, idx, body) ==
  IF st.err # 0 \/ IsUndef(body.description) THEN st
  ELSE Cont(SetField(st.d, "books", idx, "description",
                     Str(Trim(ToStr(body.description)))))

putBooksPrice(st, idx, body) ==
  IF st.err # 0 \/ IsUndef(body.price) THEN st
  ELSE IF ~isValidPrice(body.price) THEN Fail(st, 400)
  ELSE Cont(SetField(st.d, "books", idx, "price", body.price))

putBooksFile(st, idx, body) ==
  IF st.err # 0 \/ IsUndef(body.file) THEN st
  ELSE Cont(SetField(st.d, "books", idx, "file", body.file))

\* putBooksAuthorId assigning before it has looked the author up
putBooksAuthorIdUnchecked(st, idx, body) ==
  IF st.err # 0 \/ IsUndef(body.authorId) THEN st
  ELSE IF ~isValidString(body.authorId) THEN Fail(st, 400)
  ELSE Cont(SetField(st.d, "books", idx, "authorId", body.authorId))

putBooksAuthorId(st, idx, body) ==
  IF st.err # 0 \/ IsUndef(body.authorId) THEN st
  ELSE IF ~isValidString(body.authorId) THEN Fail(st, 400)
  ELSE IF ~HasId(st.d.authors, body.authorId) THEN Fail(st, 400)
  ELSE Cont(SetField(st.d, "books", idx, "authorId", body.authorId))

\* putBooksCategoryId taking an absent categoryId for null
putBooksCategoryIdClearing(st, idx, body) ==
  IF st.err # 0 THEN st
  ELSE IF Truthy(body.categoryId) /\ ~isValidString(body.categoryId) THEN Fail(st, 400)
  ELSE IF Truthy(body.categoryId) /\ ~HasId(st.d.categories, body.categoryId)
  THEN Fail(st, 400)
  ELSE Cont(SetField(st.d, "books", idx, "categoryId", Or(body.categoryId, Null)))

putBooksCategoryId(st, idx, body) ==
  IF st.err # 0 \/ IsUndef(body.categoryId) THEN st
  ELSE IF Truthy(body.categoryId) /\ ~isValidString(body.categoryId) THEN Fail(st, 400)
  ELSE IF Truthy(body.categoryId) /\ ~HasId(st.d.categories, body.categoryId)
  THEN Fail(st, 400)
  ELSE Cont(SetField(st.d, "books", idx, "categoryId", Or(body.categoryId, Null)))

putBooksPublisherId(st, idx, body) ==
  IF st.err # 0 \/ IsUndef(body.publisherId) THEN st
  ELSE IF Truthy(body.publisherId) /\ ~isValidString(body.publisherId) THEN Fail(st, 400)
  ELSE IF Truthy(body.publisherId) /\ ~HasId(st.d.publishers, body.publisherId)
  THEN Fail(st, 400)
  ELSE Cont(SetField(st.d, "books", idx, "publisherId", Or(body.publisherId, Null)))

\* Finish writing the in-memory document before an error response too
FinishWritingAnyway(st, coll, idx, now) ==
  IF st.err # 0 THEN Saved(st.err, st.d)
  ELSE Saved(200, SetField(st.d, coll, idx, "updatedAt", Str(now)))

\* Finish stamping createdAt as well as updatedAt
FinishStampingBoth(st, coll, idx, now) ==
  IF st.err # 0 THEN Reply(st.err, st.d)
  ELSE Saved(200, SetField(SetField(st.d, coll, idx, "updatedAt", Str(now)),
                           coll, idx, "createdAt", Str(now)))

\* The end of an update handler: the error response, or the update timestamp,
\* writeData and the success response
Finish(st, coll, idx, now) ==
  IF st.err # 0 THEN Reply(st.err, st.d)
  ELSE Saved(200, SetField(st.d, coll, idx, "updatedAt", Str(now)))

putBooks(data, id, body, now) ==
  LET idx == IndexOfId(data.books, id)
  IN IF idx = 0 THEN Reply(404, data)
     ELSE Finish(
            putBooksPublisherId(
              putBooksCategoryId(
                putBooksAuthorId(
                  putBooksFile(
                    putBooksPrice(
                      putBooksDescription(
                        putBooksTitle(Cont(data), idx, body),
                        idx, body), idx, body), idx, body), idx, body), idx, body),
              idx, body),
            "books", idx, now)

deleteBooks(data, id) ==
  LET newBooks == WithoutId(data.books, id)
  IN IF Len(newBooks) = Len(data.books) THEN Reply(404, data)
     ELSE Saved(204, [data EXCEPT !.books = newBooks])

---------------------------------------------------------------------------
\* Categories (RF04)

postCategoriesPre(body) == IF ~isValidString(body.name) THEN 400 ELSE 0

postCategories(data, body, id, now) ==
  LET newCategory ==
        [id |-> id, name |-> Str(Trim(body.name.s)),
         createdAt |-> Str(now), updatedAt |-> Undefined]
  IN Saved(201, Push(data, "categories", newCategory))

putCategories(data, id, body, now) ==
  LET idx == IndexOfId(data.categories, id)
      s1 == IF IsUndef(body.name) THEN Cont(data)
            ELSE IF ~isValidString(body.name) THEN Fail(Cont(data), 400)
            ELSE Cont(SetField(data, "categories", idx, "name", Str(Trim(body.name.s))))
  IN IF idx = 0 THEN Reply(404, data)
     ELSE IF s1.err # 0 THEN Reply(s1.err, s1.d)
     ELSE Saved(200, SetField(s1.d, "categories", idx, "updatedAt", Str(now)))

\* deleteCategories with the delete-guard after the removal
deleteCategoriesNoGuard(data, id) ==
  LET newCategories == WithoutId(data.categories, id)
  IN IF Len(newCategories) = Len(data.categories) THEN Reply(404, data)
     ELSE Saved(204, [data EXCEPT !.categories = newCategories])

deleteCategories(data, id) ==
  LET usedByBook == \E i \in 1..Len(data.books) : data.books[i].categoryId = id
      newCategories == WithoutId(data.categories, id)
  IN IF usedByBook THEN Reply(400, data)
     ELSE IF Len(newCategories) = Len(data.categories) THEN Reply(404, data)
     ELSE Saved(204, [data EXCEPT !.categories = newCategories])

---------------------------------------------------------------------------
\* Publishers (RF05)

\* Number(v) for the values a JSON body can carry
ToNumber(v) ==
  CASE v.t = "number" -> v
    [] v.t = "null" -> Num(0)
    [] v.t = "string" /\ Trim(v.s) = <<>> -> Num(0)
    [] v.t = "string" /\ Trim(v.s) = <<"1">> -> Num(1)
    [] v.t = "string" /\ Trim(v.s) = <<"2">> -> Num(2)
    [] OTHER -> NaN

postPublishersPre(body) == IF ~isValidString(body.name) THEN 400 ELSE 0

postPublishers(data, body, id, now) ==
  LET newPublisher ==
        [id |-> id, name |-> Str(Trim(body.name.s)),
         foundationYear |-> IF Truthy(body.foundationYear)
                            THEN ToNumber(body.foundationYear) ELSE Null,
         createdAt |-> Str(now), updatedAt |-> Undefined]
  IN Saved(201, Push(data, "publishers", newPublisher))

putPublishers(data, id, body, now) ==
  LET idx == IndexOfId(data.publishers, id)
      s1 == IF IsUndef(body.name) THEN Cont(data)
            ELSE IF ~isValidString(body.name) THEN Fail(Cont(data), 400)
            ELSE Cont(SetField(data, "publishers", idx, "name", Str(Trim(body.name.s))))
      s2 == IF s1.err # 0 \/ IsUndef(body.foundationYear) THEN s1
            ELSE Cont(SetField(s1.d, "publishers", idx, "foundationYear",
                               ToNumber(body.foundationYear)))
  IN IF idx = 0 THEN Reply(404, data)
     ELSE IF s2.err # 0 THEN Reply(s2.err, s2.d)
     ELSE Saved(200, SetField(s2.d, "publishers", idx, "updatedAt", Str(now)))

\* deletePublishers with `b.publisherId = id` for `b.publisherId === id`: the
\* assignment is truthy for every Book
deletePublishersAnyBook(data, id) ==
  LET usedByBook == Len(data.books) > 0
      newPublishers == WithoutId(data.publishers, id)
  IN IF usedByBook THEN Reply(400, data)
     ELSE IF Len(newPublishers) = Len(data.publishers) THEN Reply(404, data)
     ELSE Saved(204, [data EXCEPT !.publishers = newPublishers])

deletePublishers(data, id) ==
  LET usedByBook == \E i \in 1..Len(data.books) : data.books[i].publisherId = id
      newPublishers == WithoutId(data.publishers, id)
  IN IF usedByBook THEN Reply(400, data)
     ELSE IF Len(newPublishers) = Len(data.publishers) THEN Reply(404, data)
     ELSE Saved(204, [data EXCEPT !.publishers = newPublishers])

---------------------------------------------------------------------------
\* Users (RF01)

postUsersPre(body) ==
  IF ~isValidString(body.name) \/ ~isValidString(body.email)
     \/ ~isValidString(body.password)
  THEN 400 ELSE 0

\* postUsers comparing the stored emails with the email as sent, not trimmed
postUsersRawCompare(data, body, id, now) ==
  LET emailExists == \E i \in 1..Len(data.users) : data.users[i].email = body.email
      newUser ==
        [id |-> id, name |-> Str(Trim(body.name.s)), email |-> Str(Trim(body.email.s)),
         password |-> body.password, createdAt |-> Str(now), updatedAt |-> Undefined]
  IN IF emailExists THEN Reply(400, data)
     ELSE Saved(201, Push(data, "users", newUser))

postUsers(data, body, id, now) ==
  LET emailExists ==
        \E i \in 1..Len(data.users) : data.users[i].email = Str(Trim(body.email.s))
      newUser ==
        [id |-> id, name |-> Str(Trim(body.name.s)), email |-> Str(Trim(body.email.s)),
         password |-> body.password, createdAt |-> Str(now), updatedAt |-> Undefined]
  IN IF emailExists THEN Reply(400, data)
     ELSE Saved(201, Push(data, "users", newUser))

putUsersName(st, idx, body) ==
  IF st.err # 0 \/ IsUndef(body.name) THEN st
  ELSE IF ~isValidString(body.name) THEN Fail(st, 400)
  ELSE Cont(SetField(st.d, "users", idx, "name", Str(Trim(body.name.s))))

\* putUsersEmail without `i !== idx`
putUsersEmailAnyUser(st, idx, body) ==
  IF st.err # 0 \/ IsUndef(body.email) THEN st
  ELSE IF ~isValidString(body.email) THEN Fail(st, 400)
  ELSE IF \E i \in 1..Len(st.d.users) : st.d.users[i].email = Str(Trim(body.email.s))
  THEN Fail(st, 400)
  ELSE Cont(SetField(st.d, "users", idx, "email", Str(Trim(body.email.s))))

putUsersEmail(st, idx, body) ==
  IF st.err # 0 \/ IsUndef(body.email) THEN st
  ELSE IF ~isValidString(body.email) THEN Fail(st, 400)
  ELSE IF \E i \in 1..Len(st.d.users) :
            i # idx /\ st.d.users[i].email = Str(Trim(body.email.s))
  THEN Fail(st, 400)
  ELSE Cont(SetField(st.d, "users", idx, "email", Str(Trim(body.email.s))))

putUsersPassword(st, idx, body) ==
  IF st.err # 0 \/ IsUndef(body.password) THEN st
  ELSE Cont(SetField(st.d, "users", idx, "password", body.password))

putUsers(data, id, body, now) ==
  LET idx == IndexOfId(data.users, id)
  IN IF idx = 0 THEN Reply(404, data)
     ELSE Finish(putUsersPassword(
                   putUsersEmail(putUsersName(Cont(data), idx, body), idx, body),
                   idx, body),
                 "users", idx, now)

\* deleteUsers refusing while a Review references the User
deleteUsersWhileReviewed(data, id) ==
  LET usedInReview == \E i \in 1..Len(data.reviews) : data.reviews[i].userId = id
      newUsers == WithoutId(data.users, id)
  IN IF usedInReview THEN Reply(400, data)
     ELSE IF Len(newUsers) = Len(data.users) THEN Reply(404, data)
     ELSE Saved(204, [data EXCEPT !.users = newUsers])

deleteUsers(data, id) ==
  LET usedInBook == \E i \in 1..Len(data.books) : data.books[i].authorId = id
      newUsers == WithoutId(data.users, id)
  IN IF usedInBook THEN Reply(400, data)
     ELSE IF Len(newUsers) = Len(data.users) THEN Reply(404, data)
     ELSE Saved(204, [data EXCEPT !.users = newUsers])

---------------------------------------------------------------------------
\* Reviews (RF06)

\* !(typeof rating !== 'number' || rating < 1 || rating > 5)
validRating(v) ==
  v.t = "number" /\ (IsNaN(v) \/ (~IsInfinity(v) /\ v.n >= 1 /\ v.n <= 5))

postReviewsPre(body) ==
  IF ~isValidString(body.userId) \/ ~isValidString(body.bookId) THEN 400
  ELSE IF ~validRating(body.rating) THEN 400
  ELSE 0

postReviews(data, body, id, now) ==
  LET newReview ==
        [id |-> id, userId |-> body.userId, bookId |-> body.bookId,
         rating |-> body.rating,
         comment |-> IF Truthy(body.comment)
                     THEN Str(Trim(ToStr(body.comment))) ELSE Str(<<>>),
         createdAt |-> Str(now), updatedAt |-> Undefined]
  IN IF ~HasId(data.users, body.userId) \/ ~HasId(data.books, body.bookId)
     THEN Reply(400, data)
     ELSE Saved(201, Push(data, "reviews", newReview))

putReviewsRating(st, idx, body) ==
  IF st.err # 0 \/ IsUndef(body.rating) THEN st
  ELSE IF ~validRating(body.rating) THEN Fail(st, 400)
  ELSE Cont(SetField(st.d, "reviews", idx, "rating", body.rating))

putReviewsComment(st, idx, body) ==
  IF st.err # 0 \/ IsUndef(body.comment) THEN st
  ELSE Cont(SetField(st.d, "reviews", idx, "comment", Str(Trim(ToStr(body.comment)))))

putReviews(data, id, body, now) ==
  LET idx == IndexOfId(data.reviews, id)
  IN IF idx = 0 THEN Reply(404, data)
     ELSE Finish(putReviewsComment(putReviewsRating(Cont(data), idx, body), idx, body),
                 "reviews", idx, now)

deleteReviews(data, id) ==
  LET newReviews == WithoutId(data.reviews, id)
  IN IF Len(newReviews) = Len(data.reviews) THEN Reply(404, data)
     ELSE Saved(204, [data EXCEPT !.reviews = newReviews])

---------------------------------------------------------------------------
\* Orders (RF07)

\* a * b and a + b on numbers (b converted by Number)
Mul(a, b) ==
  LET x == ToNumber(a)
      y == ToNumber(b)
  IN IF IsNaN(x) \/ IsNaN(y) THEN NaN
     ELSE IF IsInfinity(x) \/ IsInfinity(y)
          THEN IF x = Num(0) \/ y = Num(0) THEN NaN ELSE Infinity
     ELSE Num(x.n * y.n)

Add(a, b) ==
  IF IsNaN(a) \/ IsNaN(b) THEN NaN
  ELSE IF IsInfinity(a) \/ IsInfinity(b) THEN Infinity
  ELSE Num(a.n + b.n)

postOrdersPre(body) ==
  IF ~isValidString(body.userId) THEN 400
  ELSE IF body.items.t # "array" \/ Len(body.items.s) = 0 THEN 400
  ELSE 0

\* orderTotal looking up the Book of the first item only: a later item whose
\* Book is not found adds nothing
RECURSIVE orderTotalFirstChecked(_, _, _)
orderTotalFirstChecked(data, items, k) ==
  IF k = 0 THEN [total |-> Num(0), err |-> 0]
  ELSE LET before == orderTotalFirstChecked(data, items, k - 1)
           item == items[k]
           idx == IndexOfId(data.books, item.bookId)
       IN IF before.err # 0 THEN before
          ELSE IF idx = 0
               THEN IF k = 1 THEN [total |-> before.total, err |-> 400] ELSE before
          ELSE [total |-> Add(before.total,
                              Mul(data.books[idx].price, Or(item.quantity, Num(1)))),
                err |-> 0]

\* The loop over the items: [total, err] after the first k items; err is set
\* at the first item whose book is not found, and the loop returns there.
RECURSIVE orderTotal(_, _, _)
orderTotal(data, items, k) ==
  IF k = 0 THEN [total |-> Num(0), err |-> 0]
  ELSE LET before == orderTotal(data, items, k - 1)
           item == items[k]
           idx == IndexOfId(data.books, item.bookId)
       IN IF before.err # 0 THEN before
          ELSE IF idx = 0 THEN [total |-> before.total, err |-> 400]
          ELSE [total |-> Add(before.total,
                              Mul(data.books[idx].price, Or(item.quantity, Num(1)))),
                err |-> 0]

postOrders(data, body, id, now) ==
  LET sum == orderTotal(data, body.items.s, Len(body.items.s))
      newOrder ==
        [id |-> id, userId |-> body.userId, items |-> body.items,
         total |-> sum.total, status |-> Str(<<"pending">>),
         createdAt |-> Str(now), updatedAt |-> Undefined]
  IN IF ~HasId(data.users, body.userId) THEN Reply(400, data)
     ELSE IF sum.err # 0 THEN Reply(sum.err, data)
     ELSE Saved(201, Push(data, "orders", newOrder))

\* putOrdersStatus computing the total again from the prices of the moment
putOrdersStatusRepriced(st, idx, body) ==
  IF st.err # 0 \/ IsUndef(body.status) THEN st
  ELSE IF ~isValidString(body.status) THEN Fail(st, 400)
  ELSE Cont(SetField(
              SetField(st.d, "orders", idx, "status", Str(Trim(body.status.s))),
              "orders", idx, "total",
              orderTotal(st.d, st.d.orders[idx].items.s,
                         Len(st.d.orders[idx].items.s)).total))

putOrdersStatus(st, idx, body) ==
  IF st.err # 0 \/ IsUndef(body.status) THEN st
  ELSE IF ~isValidString(body.status) THEN Fail(st, 400)
  ELSE Cont(SetField(st.d, "orders", idx, "status", Str(Trim(body.status.s))))

putOrders(data, id, body, now) ==
  LET idx == IndexOfId(data.orders, id)
  IN IF idx = 0 THEN Reply(404, data)
     ELSE Finish(putOrdersStatus(Cont(data), idx, body), "orders", idx, now)

deleteOrders(data, id) ==
  LET newOrders == WithoutId(data.orders, id)
  IN IF Len(newOrders) = Len(data.orders) THEN Reply(404, data)
     ELSE Saved(204, [data EXCEPT !.orders = newOrders])

---------------------------------------------------------------------------
\* Coupons (RF08)

validDiscount(v) ==
  v.t = "number" /\ (IsNaN(v) \/ (~IsInfinity(v) /\ v.n > 0 /\ v.n <= 100))

\* The coupon creation block
postCouponsPre(body) ==
  IF ~isValidString(body.code) THEN 400
  ELSE IF ~validDiscount(body.discountPercentage) THEN 400
  ELSE 0

postCoupons(data, body, id, now) ==
  LET newCoupon ==
        [id |-> id, code |-> Str(ToUpperCase(Trim(body.code.s))),
         discountPercentage |-> body.discountPercentage,
         createdAt |-> Str(now), updatedAt |-> Undefined]
  IN Saved(201, Push(data, "coupons", newCoupon))

\* putCouponsCode upper-casing the code as sent, blanks included
putCouponsCodeUntrimmed(st, idx, body) ==
  IF st.err # 0 \/ IsUndef(body.code) THEN st
  ELSE IF ~isValidString(body.code) THEN Fail(st, 400)
  ELSE Cont(SetField(st.d, "coupons", idx, "code", Str(ToUpperCase(body.code.s))))

putCouponsCode(st, idx, body) ==
  IF st.err # 0 \/ IsUndef(body.code) THEN st
  ELSE IF ~isValidString(body.code) THEN Fail(st, 400)
  ELSE Cont(SetField(st.d, "coupons", idx, "code", Str(ToUpperCase(Trim(body.code.s)))))

putCouponsDiscount(st, idx, body) ==
  IF st.err # 0 \/ IsUndef(body.discountPercentage) THEN st
  ELSE IF ~validDiscount(body.discountPercentage) THEN Fail(st, 400)
  ELSE Cont(SetField(st.d, "coupons", idx, "discountPercentage",
                     body.discountPercentage))

putCoupons(data, id, body, now) ==
  LET idx == IndexOfId(data.coupons, id)
  IN IF idx = 0 THEN Reply(404, data)
     ELSE Finish(putCouponsDiscount(putCouponsCode(Cont(data), idx, body), idx, body),
                 "coupons", idx, now)

deleteCoupons(data, id) ==
  LET newCoupons == WithoutId(data.coupons, id)
  IN IF Len(newCoupons) = Len(data.coupons) THEN Reply(404, data)
     ELSE Saved(204, [data EXCEPT !.coupons = newCoupons])

---------------------------------------------------------------------------
\* Response bodies and the read handlers
\*
\* An object is a record of its own properties.  A property whose value is
\* Undefined is one the object holds with the value undefined (the records
\* above keep updatedAt that way until the first update); JSON.stringify
\* leaves such a property out.

IsObject(v) == "t" \notin DOMAIN v

\* JSON.stringify of an object without objects inside
Flat(obj) == [k \in {f \in DOMAIN obj : obj[f] # Undefined} |-> jsonValue(obj[k])]

\* JSON.stringify of an object, of a list of objects, of nothing
Json(obj) ==
  [k \in {f \in DOMAIN obj : obj[f] # Undefined} |->
     IF IsObject(obj[k]) THEN Flat(obj[k]) ELSE jsonValue(obj[k])]

Stringify(v) ==
  IF IsObject(v) THEN Json(v)
  ELSE IF v.t = "array" THEN Arr([i \in 1..Len(v.s) |-> Json(v.s[i])])
  ELSE v

\* res.status(204).send(): no body
NoJson == Undefined

\* { error: '...' } of a 400 or 404 (the text of the message is left out), and
\* { error: 'Erro interno' } of a 500
Failure == [error |-> Str(<<"message">>)]
InternalError == [error |-> Str(<<"Erro interno">>)]

\* const { password: _, ...safeUser } = user
safeUser(user) == [k \in DOMAIN user \ {"password"} |-> user[k]]

\* The collection a create, update or delete route works on
RouteCollection(op) ==
  CASE op \in {"POST /authors", "PUT /authors/:id", "DELETE /authors/:id"} -> "authors"
    [] op \in {"POST /books", "PUT /books/:id", "DELETE /books/:id"} -> "books"
    [] op \in {"POST /users", "PUT /users/:id", "DELETE /users/:id"} -> "users"
    [] op \in {"POST /categories", "PUT /categories/:id", "DELETE /categories/:id"}
       -> "categories"
    [] op \in {"POST /publishers", "PUT /publishers/:id", "DELETE /publishers/:id"}
       -> "publishers"
    [] op \in {"POST /reviews", "PUT /reviews/:id", "DELETE /reviews/:id"} -> "reviews"
    [] op \in {"POST /orders", "PUT /orders/:id", "DELETE /orders/:id"} -> "orders"
    [] op \in {"POST /coupons", "PUT /coupons/:id", "DELETE /coupons/:id"} -> "coupons"

\* What a create, update or delete handler hands to res.json: the record
\* pushed (201), the record updated (200), nothing (204) or an error object;
\* the User routes hand over safeUser.
resJson(op, id, r) ==
  LET coll == r.data[RouteCollection(op)]
      rec == IF r.status = 201 THEN coll[Len(coll)] ELSE coll[IndexOfId(coll, id)]
  IN CASE r.status \in {200, 201} ->
            IF RouteCollection(op) = "users" THEN safeUser(rec) ELSE rec
       [] r.status = 204 -> NoJson
       [] OTHER -> Failure

\* What a read handler leaves behind: status, body, and its in-memory copy of
\* the document (never written)
Answer(status, json, data) ==
  [status |-> status, write |-> FALSE, data |-> data, json |-> json]

\* str.includes(word) on the characters of str
Includes(chars, word) ==
  \E i \in 0..(Len(chars) - Len(word)) : SubSeq(chars, i + 1, i + Len(word)) = word

WordAuthor == <<"a", "u", "t", "h", "o", "r">>
WordCategory == <<"c", "a", "t", "e", "g", "o", "r", "y">>
WordPublisher == <<"p", "u", "b", "l", "i", "s", "h", "e", "r">>
WordUser == <<"u", "s", "e", "r">>
WordBook == <<"b", "o", "o", "k">>

\* arr.find(x => x.id === id) || null
findOrNull(arr, id) == IF HasId(arr, id) THEN arr[IndexOfId(arr, id)] ELSE Null

\* expand.includes(word) ? (arr.find(x => x.id === id) || null) : undefined
related(expand, word, arr, id) ==
  IF Includes(expand.s, word) THEN findOrNull(arr, id) ELSE Undefined

\* { ...obj, ...(v && { [name]: v }) }
Spread(obj, name, v) ==
  IF v = Undefined \/ v = Null THEN obj
  ELSE [k \in DOMAIN obj \cup {name} |-> IF k = name THEN v ELSE obj[k]]

\* The Book b as GET /books and GET /books/:id return it under expand
expandBook(data, b, expand) ==
  Spread(Spread(Spread(b,
    "author", related(expand, WordAuthor, data.authors, b.authorId)),
    "category", related(expand, WordCategory, data.categories, b.categoryId)),
    "publisher", related(expand, WordPublisher, data.publishers, b.publisherId))

getBooks(data, expand) ==
  Answer(200,
         Arr(IF Truthy(expand)
             THEN [i \in 1..Len(data.books) |-> expandBook(data, data.books[i], expand)]
             ELSE data.books),
         data)

getBooksId(data, id, expand) ==
  LET idx == IndexOfId(data.books, id)
  IN IF idx = 0 THEN Answer(404, Failure, data)
     ELSE Answer(200,
                 IF Truthy(expand) THEN expandBook(data, data.books[idx], expand)
                 ELSE data.books[idx],
                 data)

\* stripped leaving the User as it is
keptWhole(user) == user

\* user.password = undefined; Object.assign(user, safeUser)
stripped(user) == [user EXCEPT !.password = Undefined]

\* The Review r as GET /reviews returns it under expand; the User attached is
\* the object of data.users itself, with its password set to undefined
expandReview(data, r, expand) ==
  LET user == related(expand, WordUser, data.users, r.userId)
      book == related(expand, WordBook, data.books, r.bookId)
  IN Spread(Spread(r, "user", IF user = Undefined \/ user = Null THEN user
                              ELSE stripped(user)),
            "book", book)

\* data.users in memory after the map of GET /reviews
usersAfterExpand(data, expand) ==
  [i \in 1..Len(data.users) |->
     IF /\ Includes(expand.s, WordUser)
        /\ i = IndexOfId(data.users, data.users[i].id)
        /\ \E j \in 1..Len(data.reviews) : data.reviews[j].userId = data.users[i].id
     THEN stripped(data.users[i])
     ELSE data.users[i]]

getReviews(data, expand) ==
  IF Truthy(expand)
  THEN Answer(200,
              Arr([i \in 1..Len(data.reviews) |->
                     expandReview(data, data.reviews[i], expand)]),
              [data EXCEPT !.users = usersAfterExpand(data, expand)])
  ELSE Answer(200, Arr(data.reviews), data)

getUsers(data) ==
  Answer(200, Arr([i \in 1..Len(data.users) |-> safeUser(data.users[i])]), data)

getUsersId(data, id) ==
  LET idx == IndexOfId(data.users, id)
  IN IF idx = 0 THEN Answer(404, Failure, data)
     ELSE Answer(200, safeUser(data.users[idx]), data)

\* The list and get-by-id handlers of the other collections
getList(data, coll) == Answer(200, Arr(data[coll]), data)

getById(data, coll, id) ==
  LET idx == IndexOfId(data[coll], id)
  IN IF idx = 0 THEN Answer(404, Failure, data)
     ELSE Answer(200, data[coll][idx], data)

---------------------------------------------------------------------------
\* State: the file data.json, the number of identifiers handed out so far,
\* the request answered last with the status of its response (resp) and the
\* body of that response as the client receives it (sent), and the requests
\* that have read the document and not yet written it (pending).

\* refused is a history variable: the ids of the records whose delete was
\* refused, while the record existed, because a Book referenced it.

VARIABLES file, nextId, resp, refused, sent, pending

vars == <<file, nextId, resp, refused, sent, pending>>

\* The requests that can be in flight at once
Clients == 1..MaxClients

\* No request of the client is in flight
Idle == [op |-> "idle"]

NoId == Str(<<>>)

\* The identifiers uuidv4 has handed out, and one it never hands out
IssuedIds == {uuidv4(k) : k \in 1..(nextId - 1)}
UnknownId == uuidv4(0)

\* The document a handler works on
Data == readData(file).data

\* The delete routes behind a delete-guard, and the collection of each
GuardedDeletes ==
  {"DELETE /authors/:id", "DELETE /categories/:id", "DELETE /publishers/:id"}

CollectionOf(op) ==
  CASE op = "DELETE /authors/:id" -> "authors"
    [] op = "DELETE /categories/:id" -> "categories"
    [] op = "DELETE /publishers/:id" -> "publishers"

\* The ids of the records of a collection
IdsOf(arr) == {arr[i].id : i \in 1..Len(arr)}

\* The id in the path of a request: an id handed out in this run, the id of a
\* record of the document, or an id that names nothing
PathIds ==
  IssuedIds \cup {UnknownId}
  \cup IdsOf(Data.authors) \cup IdsOf(Data.books) \cup IdsOf(Data.users)
  \cup IdsOf(Data.categories) \cup IdsOf(Data.publishers)
  \cup IdsOf(Data.reviews) \cup IdsOf(Data.orders) \cup IdsOf(Data.coupons)

\* A request handled from readData to its response with no other request in
\* between.  pre is the status of a validation done before readData (0 when
\* it passes); r is what the handler does on the document read.  resp keeps
\* the route, the id of the path, the body's field the integrity checks of
\* the route are about (key), and the status of the response.
Request(op, id, key, pre, r) ==
  /\ (pre = 0 /\ r.status = 201) => nextId <= MaxIds
  /\ resp' = [op |-> op, id |-> id, key |-> key,
              status |-> IF pre # 0 THEN pre ELSE r.status]
  /\ file' = IF pre # 0 THEN file
             ELSE IF r.write THEN writeData(r.data)
             ELSE readData(file).file
  /\ nextId' = IF pre = 0 /\ r.status = 201 THEN nextId + 1 ELSE nextId
  /\ refused' = IF /\ op \in GuardedDeletes
                   /\ resp'.status = 400
                   /\ HasId(Data[CollectionOf(op)], id)
                THEN refused \cup {id}
                ELSE refused
  /\ sent' = IF pre # 0 THEN Failure ELSE Stringify(resJson(op, id, r))
  /\ pending' = pending

PostAuthors(Bodies) ==
  \E body \in Bodies, now \in Times :
    Request("POST /authors", NoId, Undefined, postAuthorsPre(body),
            postAuthors(Data, body, uuidv4(nextId), now))

PutAuthors(Bodies) ==
  \E id \in PathIds, body \in Bodies, now \in Times :
    Request("PUT /authors/:id", id, Undefined, 0, putAuthors(Data, id, body, now))

DeleteAuthors ==
  \E id \in PathIds :
    Request("DELETE /authors/:id", id, Undefined, 0, deleteAuthors(Data, id))

PostBooks(Bodies) ==
  \E body \in Bodies, now \in Times :
    Request("POST /books", NoId, body.authorId, postBooksPre(body),
            postBooks(Data, body, uuidv4(nextId), now))

PutBooks(Bodies) ==
  \E id \in PathIds, body \in Bodies, now \in Times :
    Request("PUT /books/:id", id, body.authorId, 0, putBooks(Data, id, body, now))

DeleteBooks ==
  \E id \in PathIds :
    Request("DELETE /books/:id", id, Undefined, 0, deleteBooks(Data, id))

PostCategories(Bodies) ==
  \E body \in Bodies, now \in Times :
    Request("POST /categories", NoId, Undefined, postCategoriesPre(body),
            postCategories(Data, body, uuidv4(nextId), now))

PutCategories(Bodies) ==
  \E id \in PathIds, body \in Bodies, now \in Times :
    Request("PUT /categories/:id", id, Undefined, 0, putCategories(Data, id, body, now))

DeleteCategories ==
  \E id \in PathIds :
    Request("DELETE /categories/:id", id, Undefined, 0, deleteCategories(Data, id))

PostPublishers(Bodies) ==
  \E body \in Bodies, now \in Times :
    Request("POST /publishers", NoId, Undefined, postPublishersPre(body),
            postPublishers(Data, body, uuidv4(nextId), now))

PutPublishers(Bodies) ==
  \E id \in PathIds, body \in Bodies, now \in Times :
    Request("PUT /publishers/:id", id, Undefined, 0, putPublishers(Data, id, body, now))

DeletePublishers ==
  \E id \in PathIds :
    Request("DELETE /publishers/:id", id, Undefined, 0, deletePublishers(Data, id))

PostUsers(Bodies) ==
  \E body \in Bodies, now \in Times :
    Request("POST /users", NoId, body.email, postUsersPre(body),
            postUsers(Data, body, uuidv4(nextId), now))

PutUsers(Bodies) ==
  \E id \in PathIds, body \in Bodies, now \in Times :
    Request("PUT /users/:id", id, body.email, 0, putUsers(Data, id, body, now))

DeleteUsers ==
  \E id \in PathIds :
    Request("DELETE /users/:id", id, Undefined, 0, deleteUsers(Data, id))

PostOrders(Bodies) ==
  \E body \in Bodies, now \in Times :
    Request("POST /orders", NoId, body, postOrdersPre(body),
            postOrders(Data, body, uuidv4(nextId), now))

PutOrders(Bodies) ==
  \E id \in PathIds, body \in Bodies, now \in Times :
    Request("PUT /orders/:id", id, Undefined, 0, putOrders(Data, id, body, now))

DeleteOrders ==
  \E id \in PathIds :
    Request("DELETE /orders/:id", id, Undefined, 0, deleteOrders(Data, id))

PostCoupons(Bodies) ==
  \E body \in Bodies, now \in Times :
    Request("POST /coupons", NoId, body.code, postCouponsPre(body),
            postCoupons(Data, body, uuidv4(nextId), now))

PutCoupons(Bodies) ==
  \E id \in PathIds, body \in Bodies, now \in Times :
    Request("PUT /coupons/:id", id, body.code, 0, putCoupons(Data, id, body, now))

DeleteCoupons ==
  \E id \in PathIds :
    Request("DELETE /coupons/:id", id, Undefined, 0, deleteCoupons(Data, id))

PostReviews(Bodies) ==
  \E body \in Bodies, now \in Times :
    Request("POST /reviews", NoId, body.userId, postReviewsPre(body),
            postReviews(Data, body, uuidv4(nextId), now))

PutReviews(Bodies) ==
  \E id \in PathIds, body \in Bodies, now \in Times :
    Request("PUT /reviews/:id", id, Undefined, 0, putReviews(Data, id, body, now))

DeleteReviews ==
  \E id \in PathIds :
    Request("DELETE /reviews/:id", id, Undefined, 0, deleteReviews(Data, id))

\* Get writing the handler's in-memory copy of the document back
GetSaving(op, id, key, r) ==
  /\ resp' = [op |-> op, id |-> id, key |-> key, status |-> r.status]
  /\ file' = writeData(r.data)
  /\ sent' = Stringify(r.json)
  /\ UNCHANGED <<nextId, refused, pending>>

\* An update request with its whole body kept in resp.key; put is the handler
Put(op, Bodies, put(_, _, _, _)) ==
  \E id \in PathIds, body \in Bodies, now \in Times :
    Request(op, id, body, 0, put(Data, id, body, now))

\* A read request handled from readData to its response with no other request
\* in between; key is req.query.expand
Get(op, id, key, r) ==
  /\ resp' = [op |-> op, id |-> id, key |-> key, status |-> r.status]
  /\ file' = readData(file).file
  /\ sent' = Stringify(r.json)
  /\ UNCHANGED <<nextId, refused, pending>>

GetBooks(Expands) ==
  \E expand \in Expands : Get("GET /books", NoId, expand, getBooks(Data, expand))

GetBooksId(Expands) ==
  \E id \in PathIds, expand \in Expands :
    Get("GET /books/:id", id, expand, getBooksId(Data, id, expand))

GetReviews(Expands) ==
  \E expand \in Expands : Get("GET /reviews", NoId, expand, getReviews(Data, expand))

GetUsers == Get("GET /users", NoId, Undefined, getUsers(Data))

GetUsersId ==
  \E id \in PathIds : Get("GET /users/:id", id, Undefined, getUsersId(Data, id))

\* The collections whose list and get-by-id handlers return the records as
\* they are, without reading req.query
PlainCollections ==
  {"authors", "categories", "publishers", "reviews", "orders", "coupons"}

ListRoute(coll) ==
  CASE coll = "authors" -> "GET /authors"
    [] coll = "categories" -> "GET /categories"
    [] coll = "publishers" -> "GET /publishers"
    [] coll = "orders" -> "GET /orders"
    [] coll = "coupons" -> "GET /coupons"

ByIdRoute(coll) ==
  CASE coll = "authors" -> "GET /authors/:id"
    [] coll = "categories" -> "GET /categories/:id"
    [] coll = "publishers" -> "GET /publishers/:id"
    [] coll = "reviews" -> "GET /reviews/:id"
    [] coll = "orders" -> "GET /orders/:id"
    [] coll = "coupons" -> "GET /coupons/:id"

GetList ==
  \E coll \in PlainCollections \ {"reviews"} :
    Get(ListRoute(coll), NoId, Undefined, getList(Data, coll))

GetById ==
  \E coll \in PlainCollections, id \in PathIds :
    Get(ByIdRoute(coll), id, Undefined, getById(Data, coll, id))

Init ==
  /\ file = NoFile
  /\ nextId = 1
  /\ resp = [op |-> "none", id |-> NoId, key |-> Undefined, status |-> 0]
  /\ refused = {}
  /\ sent = NoJson
  /\ pending = [c \in Clients |-> Idle]

---------------------------------------------------------------------------
\* The catalog: authors, books, categories and publishers

CatAuthorBodies ==
  [name : {Undefined, Str(<<"a">>)}, biography : {Undefined}, nationality : {Undefined}]

CatNameBodies == [name : {Undefined, Str(<<"c">>)}]

CatPublisherBodies == [name : {Undefined, Str(<<"p">>)}, foundationYear : {Undefined}]

\* The values a request gives a reference field besides leaving it out: the
\* id of a record of the collection, or an id that names no record of it
RefsTo(arr) == {UnknownId} \cup IdsOf(arr)

NoBookFields ==
  [title |-> Undefined, description |-> Undefined, price |-> Undefined,
   file |-> Undefined, authorId |-> Undefined, categoryId |-> Undefined,
   publisherId |-> Undefined]

\* Create requests: a valid title and price with every choice of the three
\* references, and one body that fails the validation before readData
CatBookPostBodies ==
  [title : {Str(<<"t">>)}, description : {Undefined},
   price : {Num(1)}, file : {Undefined},
   authorId : RefsTo(Data.authors),
   categoryId : {Undefined} \cup RefsTo(Data.categories),
   publisherId : {Undefined} \cup RefsTo(Data.publishers)]
  \cup {NoBookFields}

\* Update requests: one reference field (an id, or null), alone or after a
\* new title
CatBookPutBodies ==
  LET refs ==
        {[NoBookFields EXCEPT !.authorId = v] : v \in {Null} \cup RefsTo(Data.authors)}
        \cup {[NoBookFields EXCEPT !.categoryId = v] :
                v \in {Null} \cup RefsTo(Data.categories)}
        \cup {[NoBookFields EXCEPT !.publisherId = v] :
                v \in {Null} \cup RefsTo(Data.publishers)}
  IN {NoBookFields} \cup refs \cup {[b EXCEPT !.title = Str(<<"u">>)] : b \in refs}

NextCatalog ==
  \/ PostAuthors(CatAuthorBodies)
  \/ PutAuthors(CatAuthorBodies)
  \/ DeleteAuthors
  \/ PostBooks(CatBookPostBodies)
  \/ PutBooks(CatBookPutBodies)
  \/ DeleteBooks
  \/ PostCategories(CatNameBodies)
  \/ PutCategories(CatNameBodies)
  \/ DeleteCategories
  \/ PostPublishers(CatPublisherBodies)
  \/ PutPublishers(CatPublisherBodies)
  \/ DeletePublishers

SpecCatalog == Init /\ [][NextCatalog]_vars

---------------------------------------------------------------------------
\* Referential integrity of Books (claims C1 to C6)

Books == file.doc.books

\* A Book of the document d holds id in the reference field f
ReferencedIn(d, f, id) == \E i \in 1..Len(d.books) : d.books[i][f] = id

\* C1: with requests handled one at a time from the empty document, every
\* persisted Book has an authorId that is the id of a persisted Author.
C1_AuthorIdResolves ==
  \A i \in 1..Len(Books) : HasId(file.doc.authors, Books[i].authorId)

\* A second Author exists and an update has re-pointed a Book to an Author
C1_Witness ==
  /\ resp.op = "PUT /books/:id" /\ resp.status = 200
  /\ HasId(file.doc.authors, resp.key)
  /\ Len(file.doc.authors) = 2
  /\ \E i \in 1..Len(Books) : Books[i].id = resp.id /\ Books[i].authorId = resp.key

\* The step is a delete of the record id of collection coll, which a Book of
\* the document references through field f
DeletesReferenced(op, f) ==
  resp'.op = op /\ ReferencedIn(file.doc, f, resp'.id)

\* C2: a delete of an Author, Category or Publisher that a persisted Book
\* references is refused with an error and leaves the persisted document as
\* it was.
C2_DeleteReferencedRefused ==
  [][/\ DeletesReferenced("DELETE /authors/:id", "authorId")
        => resp'.status = 400 /\ file' = file
     /\ DeletesReferenced("DELETE /categories/:id", "categoryId")
        => resp'.status = 400 /\ file' = file
     /\ DeletesReferenced("DELETE /publishers/:id", "publisherId")
        => resp'.status = 400 /\ file' = file]_vars

\* The delete of an existing Category that a Book references has been refused
C2_Witness ==
  /\ resp.op = "DELETE /categories/:id" /\ resp.status = 400
  /\ HasId(file.doc.categories, resp.id)
  /\ ReferencedIn(file.doc, "categoryId", resp.id)

\* The step is a delete (route op, collection coll, reference field f) of an
\* existing record whose delete was refused before and which no Book
\* references any more
DeletesReleased(op, coll, f) ==
  /\ resp'.op = op
  /\ resp'.id \in refused
  /\ HasId(file.doc[coll], resp'.id)
  /\ ~ReferencedIn(file.doc, f, resp'.id)

\* The step answers no-content and removes the record resp'.id from coll,
\* leaving every other record of the document as it was
RemovesOnly(coll) ==
  /\ resp'.status = 204
  /\ ~HasId(file'.doc[coll], resp'.id)
  /\ file'.exists
  /\ file'.doc = [file.doc EXCEPT
                    ![coll] = SelectSeq(@, LAMBDA x : x.id # resp'.id)]

\* C3: once the delete of an existing Author, Category or Publisher has been
\* refused because Books reference it, and every such Book has since been
\* deleted or re-pointed, a delete of the same id answers no-content, the
\* record is gone from its collection and every other record is unchanged.
C3_DeleteSucceedsOnceReleased ==
  [][/\ DeletesReleased("DELETE /authors/:id", "authors", "authorId")
        => RemovesOnly("authors")
     /\ DeletesReleased("DELETE /categories/:id", "categories", "categoryId")
        => RemovesOnly("categories")
     /\ DeletesReleased("DELETE /publishers/:id", "publishers", "publisherId")
        => RemovesOnly("publishers")]_vars

\* A Publisher whose delete was refused has been deleted while a Book remains
C3_Witness ==
  /\ resp.op = "DELETE /publishers/:id" /\ resp.status = 204
  /\ resp.id \in refused
  /\ Len(Books) > 0

\* The step is a create or an update of a Book whose body names, as authorId,
\* something that is the id of no persisted Author
NamesNoAuthor ==
  \/ resp'.op = "POST /books" /\ ~HasId(Data.authors, resp'.key)
  \/ /\ resp'.op = "PUT /books/:id"
     /\ ~IsUndef(resp'.key)
     /\ ~HasId(Data.authors, resp'.key)

\* C4: a create or update of a Book whose authorId is the id of no persisted
\* Author is answered with an error, and the document read from the store is
\* the same before and after it.
C4_DanglingAuthorRejected ==
  [][NamesNoAuthor
       => /\ resp'.status \in {400, 404}
          /\ readData(file').data = readData(file).data
          /\ file.exists => file' = file]_vars

\* An update of an existing Book has been rejected for its authorId
C4_Witness ==
  /\ resp.op = "PUT /books/:id" /\ resp.status = 400
  /\ resp.key = UnknownId
  /\ HasId(Books, resp.id)

\* C5: every persisted Book whose categoryId is not null has a categoryId
\* that is the id of a persisted Category (so a create with a categoryId
\* that matches no Category is rejected).
C5_CategoryIdResolves ==
  \A i \in 1..Len(Books) :
    Books[i].categoryId # Null => HasId(file.doc.categories, Books[i].categoryId)

\* C6: every persisted Book whose publisherId is not null has a publisherId
\* that is the id of a persisted Publisher.
C6_PublisherIdResolves ==
  \A i \in 1..Len(Books) :
    Books[i].publisherId # Null => HasId(file.doc.publishers, Books[i].publisherId)

\* A Book with a Publisher is persisted, and a delete of that Publisher was
\* the last request
C6_Witness ==
  /\ resp.op = "DELETE /publishers/:id" /\ resp.status = 400
  /\ \E i \in 1..Len(Books) : Books[i].publisherId = resp.id
  /\ HasId(file.doc.publishers, resp.id)

---------------------------------------------------------------------------
\* Users: create, update and delete

Emails == {Str(<<"a">>), Str(<<" ", "a", " ">>), Str(<<"b">>), Str(<<" ">>)}

UserPostBodies ==
  [name : {Str(<<"n">>)}, email : Emails \cup {Undefined}, password : {Str(<<"p">>)}]

UserPutBodies ==
  [name : {Undefined, Str(<<"m">>)}, email : Emails \cup {Undefined},
   password : {Undefined, Str(<<"q">>)}]

NextUsers ==
  \/ PostUsers(UserPostBodies)
  \/ PutUsers(UserPutBodies)
  \/ DeleteUsers

SpecUsers == Init /\ [][NextUsers]_vars

Users == file.doc.users

\* The step is a create whose trimmed email is the email of a persisted
\* User, or an update of a persisted User whose trimmed email is the email
\* of another persisted User
TakesEmailOfAnother ==
  /\ resp'.key.t = "string"
  /\ \/ /\ resp'.op = "POST /users"
        /\ \E i \in 1..Len(Users) : Users[i].email = Str(Trim(resp'.key.s))
     \/ /\ resp'.op = "PUT /users/:id"
        /\ HasId(Users, resp'.id)
        /\ \E i \in 1..Len(Users) :
             Users[i].id # resp'.id /\ Users[i].email = Str(Trim(resp'.key.s))

\* C7: with requests handled one at a time, no two persisted Users have the
\* same email; a create whose trimmed email is that of an existing User, and
\* an update to the email of a different User, are rejected and leave the
\* persisted document as it was.
C7_EmailsUnique ==
  /\ [](\A i, j \in 1..Len(Users) : i # j => Users[i].email # Users[j].email)
  /\ [][TakesEmailOfAnother => resp'.status = 400 /\ file' = file]_vars

\* Two Users are persisted and the update of one to the email of the other,
\* sent with blanks around it, has been rejected
C7_Witness ==
  /\ resp.op = "PUT /users/:id" /\ resp.status = 400
  /\ resp.key = Str(<<" ", "a", " ">>)
  /\ \E i, j \in 1..Len(Users) :
       /\ Users[i].id = resp.id
       /\ Users[i].email = Str(<<"b">>)
       /\ Users[j].email = Str(<<"a">>)

---------------------------------------------------------------------------
\* Coupons: create, update and delete

Save10Lower == Str(<<"s", "a", "v", "e", "1", "0">>)
Save10Mixed == Str(<<"S", "a", "v", "e", "1", "0">>)

Codes == {Save10Lower, Save10Mixed, Str(<<" ", "b">>), Str(<<" ">>)}

CouponPostBodies ==
  [code : Codes \cup {Undefined}, discountPercentage : {Num(10), Num(0)}]

CouponPutBodies ==
  [code : Codes \cup {Undefined}, discountPercentage : {Undefined, Num(100), Num(101)}]

NextCoupons ==
  \/ PostCoupons(CouponPostBodies)
  \/ PutCoupons(CouponPutBodies)
  \/ DeleteCoupons

SpecCoupons == Init /\ [][NextCoupons]_vars

Coupons == file.doc.coupons

\* C8: no two persisted Coupons have codes that are equal after trimming and
\* upper-casing (a create or an update to the code of a different Coupon is
\* rejected as a duplicate).
C8_CodesUnique ==
  \A i, j \in 1..Len(Coupons) :
    i # j => ToUpperCase(Trim(Coupons[i].code.s)) # ToUpperCase(Trim(Coupons[j].code.s))

\* C20: after any sequence of creates and updates of Coupons, the code of
\* every persisted Coupon is its own trimmed, upper-cased form.
C20_CodesNormalised ==
  \A i \in 1..Len(Coupons) :
    Coupons[i].code = Str(ToUpperCase(Trim(Coupons[i].code.s)))

\* A Coupon created as "save10" has been updated with the code " b" and is
\* persisted with the code "B"
C20_Witness ==
  /\ resp.op = "PUT /coupons/:id" /\ resp.status = 200
  /\ resp.key = Str(<<" ", "b">>)
  /\ \E i \in 1..Len(Coupons) :
       Coupons[i].id = resp.id /\ Coupons[i].code = Str(<<"B">>)

---------------------------------------------------------------------------
\* Orders, on a document that already holds an Author, Books and a User
\* (data.json outlives the process; these ids were handed out before the run)

SeedTime == Str(<<"T", "0">>)

SeedAuthor ==
  [id |-> uuidv4(-1), name |-> Str(<<"a">>), biography |-> Str(<<>>),
   nationality |-> Null, createdAt |-> SeedTime, updatedAt |-> Undefined]

SeedBook(k, price) ==
  [id |-> uuidv4(k), title |-> Str(<<"t">>), description |-> Str(<<>>),
   price |-> Num(price), file |-> Null, authorId |-> uuidv4(-1),
   categoryId |-> Null, publisherId |-> Null,
   createdAt |-> SeedTime, updatedAt |-> Undefined]

SeedUser ==
  [id |-> uuidv4(-4), name |-> Str(<<"n">>), email |-> Str(<<"a">>),
   password |-> Str(<<"p">>), createdAt |-> SeedTime, updatedAt |-> Undefined]

SeedDoc ==
  [initial EXCEPT !.authors = <<SeedAuthor>>,
                  !.books = <<SeedBook(-2, 10)>>,
                  !.users = <<SeedUser>>]

InitOrders ==
  /\ file = FileOf(SeedDoc)
  /\ nextId = 1
  /\ resp = [op |-> "none", id |-> NoId, key |-> Undefined, status |-> 0]
  /\ refused = {}
  /\ sent = NoJson
  /\ pending = [c \in Clients |-> Idle]

Quantities == {Undefined, Num(0), Num(2)}

\* A line item: a Book of the document with each quantity, or no Book
ItemChoices ==
  [bookId : IdsOf(Data.books), quantity : Quantities]
  \cup {[bookId |-> UnknownId, quantity |-> Undefined]}

\* Two units of the first Book of the document
TwoOfFirst == [bookId |-> Data.books[1].id, quantity |-> Num(2)]

\* The item lists of a request: empty, one item of any choice, or (up to
\* MaxItems items) items of two units of the first Book and then one item
\* of any choice
ItemLists ==
  {<<>>} \cup {<<c>> : c \in ItemChoices}
  \cup (IF Len(Data.books) = 0 THEN {}
        ELSE {[i \in 1..n |-> IF i < n THEN TwoOfFirst ELSE c] :
                n \in 2..MaxItems, c \in ItemChoices})

OrderPostBodies ==
  [userId : RefsTo(Data.users), items : {Arr(l) : l \in ItemLists}]
  \cup {[userId |-> Undefined, items |-> Undefined]}

OrderPutBodies == [status : {Str(<<"paid", " ">>), Str(<<" ">>)}]

OrderBookPutBodies == {[NoBookFields EXCEPT !.price = Num(7)]}

NextOrders ==
  \/ nextId <= MaxOrders /\ PostOrders(OrderPostBodies)
  \/ PutOrders(OrderPutBodies)
  \/ DeleteOrders
  \/ PutBooks(OrderBookPutBodies)
  \/ DeleteBooks

SpecOrders == InitOrders /\ [][NextOrders]_vars

Orders == file.doc.orders

\* The quantity a line item asks for: the one supplied, 1 when none is
QuantityOf(item) == IF IsUndef(item.quantity) THEN 1 ELSE item.quantity.n

\* The sum, over the first k items, of the price of the item's Book in the
\* collection books times the item's quantity
RECURSIVE SumOfItems(_, _, _)
SumOfItems(books, items, k) ==
  IF k = 0 THEN 0
  ELSE SumOfItems(books, items, k - 1)
       + books[IndexOfId(books, items[k].bookId)].price.n * QuantityOf(items[k])

\* The step has created an Order
CreatesOrder == resp'.op = "POST /orders" /\ resp'.status = 201

NewOrder == file'.doc.orders[Len(file'.doc.orders)]

\* C9: a created Order stores as total the sum over its line items of the
\* Book's price at that moment times the item's quantity, an item without
\* quantity counting as 1, whatever the quantities supplied.
C9_TotalIsSum ==
  [][CreatesOrder
       => NewOrder.total
            = Num(SumOfItems(Books, NewOrder.items.s, Len(NewOrder.items.s)))]_vars

\* C10: a persisted Order keeps its total and its items through every later
\* request, and stays persisted through every request but its own delete.
C10_OrderTotalFrozen ==
  [][\A i \in 1..Len(Orders) :
       LET j == IndexOfId(file'.doc.orders, Orders[i].id)
       IN IF j = 0
          THEN /\ resp'.op = "DELETE /orders/:id"
               /\ resp'.id = Orders[i].id
               /\ resp'.status = 204
          ELSE /\ file'.doc.orders[j].total = Orders[i].total
               /\ file'.doc.orders[j].items = Orders[i].items]_vars

\* The price of a Book has been updated after an Order of that Book was
\* created, and the Order's total is no longer the sum at today's prices
C10_Witness ==
  /\ resp.op = "PUT /books/:id" /\ resp.status = 200
  /\ \E i \in 1..Len(Orders) :
       /\ \E k \in 1..Len(Orders[i].items.s) : Orders[i].items.s[k].bookId = resp.id
       /\ Orders[i].total
            # orderTotal(file.doc, Orders[i].items.s, Len(Orders[i].items.s)).total

\* The userId of the body is the id of a User of d and the bookId of every
\* item of the body is the id of a Book of d
RefsResolve(d, body) ==
  /\ HasId(d.users, body.userId)
  /\ body.items.t = "array"
  /\ \A k \in 1..Len(body.items.s) : HasId(d.books, body.items.s[k].bookId)

\* C22: a create-Order request whose userId is not the id of an existing User,
\* or one of whose items (the first or any later one) has a bookId that is
\* not the id of an existing Book, is answered 400 and no Order is persisted:
\* the document stays as it was.
C22_OrderRefsChecked ==
  [][(resp'.op = "POST /orders" /\ ~RefsResolve(file.doc, resp'.key))
       => /\ resp'.status = 400
          /\ file' = file]_vars

\* A create-Order of an existing User has been rejected whose first item
\* names an existing Book and whose last item names none
C22_Witness ==
  /\ resp.op = "POST /orders" /\ resp.status = 400
  /\ HasId(file.doc.users, resp.key.userId)
  /\ Len(resp.key.items.s) >= 2
  /\ HasId(Books, resp.key.items.s[1].bookId)
  /\ ~HasId(Books, resp.key.items.s[Len(resp.key.items.s)].bookId)

---------------------------------------------------------------------------
\* Reads, on a document that already holds an Author, a Book without Category
\* or Publisher, a User and that User's Review of the Book

SeedReview ==
  [id |-> uuidv4(-5), userId |-> uuidv4(-4), bookId |-> uuidv4(-2),
   rating |-> Num(5), comment |-> Str(<<>>),
   createdAt |-> SeedTime, updatedAt |-> Undefined]

ReadsDoc == [SeedDoc EXCEPT !.reviews = <<SeedReview>>]

\* data.json is absent, or left by earlier requests
InitReads ==
  /\ file \in {NoFile, FileOf(ReadsDoc)}
  /\ nextId = 1
  /\ resp = [op |-> "none", id |-> NoId, key |-> Undefined, status |-> 0]
  /\ refused = {}
  /\ sent = NoJson
  /\ pending = [c \in Clients |-> Idle]

Comma == <<",">>

\* req.query.expand: absent, empty, one relation, several
BookExpands ==
  {Undefined, Str(<<>>), Str(WordAuthor),
   Str(WordCategory \o Comma \o WordPublisher),
   Str(WordAuthor \o Comma \o WordCategory \o Comma \o WordPublisher)}

ReviewExpands == {Undefined, Str(WordUser), Str(WordUser \o Comma \o WordBook)}

ReadsUserBodies ==
  [name : {Str(<<"m">>)}, email : {Str(<<"b">>)}, password : {Undefined, Str(<<"q">>)}]

\* Creates of a Book of an existing Author, without Category or with a
\* categoryId; updates of the categoryId alone
ReadsBookPostBodies ==
  {[NoBookFields EXCEPT !.title = Str(<<"t">>), !.price = Num(1),
                        !.authorId = a, !.categoryId = c] :
     a \in IdsOf(Data.authors), c \in {Undefined} \cup RefsTo(Data.categories)}

ReadsBookPutBodies ==
  {[NoBookFields EXCEPT !.categoryId = c] : c \in {Null} \cup IdsOf(Data.categories)}

NextReads ==
  \/ GetBooks(BookExpands)
  \/ GetBooksId(BookExpands)
  \/ GetReviews(ReviewExpands)
  \/ GetUsers
  \/ GetUsersId
  \/ nextId <= MaxAdded /\ PostUsers(ReadsUserBodies)
  \/ PutUsers(ReadsUserBodies)
  \/ DeleteUsers
  \/ nextId <= MaxAdded /\ PostCategories(CatNameBodies)
  \/ nextId <= MaxAdded /\ PostBooks(ReadsBookPostBodies)
  \/ PutBooks(ReadsBookPutBodies)
  \/ DeleteBooks

SpecReads == InitReads /\ [][NextReads]_vars

\* The relations a read of Books expands: the word looked for in expand, the
\* reference field, the collection it points into, the field attached
BookRelations ==
  {[word |-> WordAuthor, ref |-> "authorId", coll |-> "authors", name |-> "author"],
   [word |-> WordCategory, ref |-> "categoryId", coll |-> "categories",
    name |-> "category"],
   [word |-> WordPublisher, ref |-> "publisherId", coll |-> "publishers",
    name |-> "publisher"]}

ReviewRelations ==
  {[word |-> WordUser, ref |-> "userId", coll |-> "users", name |-> "user"],
   [word |-> WordBook, ref |-> "bookId", coll |-> "books", name |-> "book"]}

\* The last response is a successful read that was asked to expand rel
Expanded(op, rel) ==
  /\ resp.op = op /\ resp.status = 200
  /\ Truthy(resp.key) /\ Includes(resp.key.s, rel.word)

\* The record rec of the document, whose reference rel resolves to nothing,
\* was returned as json with the relation's field present and null
NullAttached(rec, json, rel) ==
  ~HasId(file.doc[rel.coll], rec[rel.ref])
    => rel.name \in DOMAIN json /\ json[rel.name] = Null

\* C11: a read of Books (list or by id) or of Reviews (list) that expands a
\* relation whose reference is null or matches no record returns the record
\* with the relation's field present and null.
C11_UnresolvedExpandsToNull ==
  /\ \A rel \in BookRelations :
       /\ Expanded("GET /books", rel)
            => \A i \in 1..Len(Books) : NullAttached(Books[i], sent.s[i], rel)
       /\ Expanded("GET /books/:id", rel)
            => NullAttached(Books[IndexOfId(Books, resp.id)], sent, rel)
  /\ \A rel \in ReviewRelations :
       Expanded("GET /reviews", rel)
         => \A i \in 1..Len(file.doc.reviews) :
              NullAttached(file.doc.reviews[i], sent.s[i], rel)

\* The last response is a User, or a list of Users
UserSent ==
  /\ resp.op \in {"POST /users", "PUT /users/:id", "GET /users/:id"}
  /\ resp.status \in {200, 201}

\* C12: no response of a User create, list, get by id or update, and no User
\* attached to a Review by expansion, has a password field.
C12_NoPasswordSent ==
  /\ UserSent => "password" \notin DOMAIN sent
  /\ resp.op = "GET /users"
       => \A i \in 1..Len(sent.s) : "password" \notin DOMAIN sent.s[i]
  /\ resp.op = "GET /reviews"
       => \A i \in 1..Len(sent.s) :
            "user" \in DOMAIN sent.s[i] => "password" \notin DOMAIN sent.s[i].user

\* A Review has been returned with its User attached, a User that is
\* persisted with a password
C12_Witness ==
  /\ resp.op = "GET /reviews"
  /\ \E i \in 1..Len(sent.s) :
       /\ "user" \in DOMAIN sent.s[i]
       /\ \E j \in 1..Len(Users) :
            /\ Users[j].id = sent.s[i].user.id
            /\ Users[j].email = sent.s[i].user.email
            /\ Users[j].password = Str(<<"p">>)

GetRoutes ==
  {"GET /books", "GET /books/:id", "GET /reviews", "GET /users", "GET /users/:id"}
  \cup {ListRoute(coll) : coll \in PlainCollections \ {"reviews"}}
  \cup {ByIdRoute(coll) : coll \in PlainCollections}

\* C18: a list or get-by-id request, with or without expansion, leaves the
\* persisted document as it was: the next request reads the document this
\* one read.
C18_ReadsLeaveDocument ==
  [][resp'.op \in GetRoutes
       => /\ readData(file').data = readData(file).data
          /\ file.exists => file' = file]_vars

\* Books have been returned with their Author attached, and the persisted
\* Books have no author field
C18_Witness ==
  /\ resp.op = "GET /books" /\ Len(sent.s) > 0
  /\ \A i \in 1..Len(sent.s) :
       /\ "author" \in DOMAIN sent.s[i]
       /\ sent.s[i].id = Books[i].id
       /\ "author" \notin DOMAIN Books[i]

---------------------------------------------------------------------------
\* Deletes of every entity type, with one create of each

OneAuthorBody == {[name |-> Str(<<"a">>), biography |-> Undefined, nationality |-> Undefined]}
OneNameBody == {[name |-> Str(<<"c">>)]}
OnePublisherBody == {[name |-> Str(<<"p">>), foundationYear |-> Undefined]}
OneUserBody == {[name |-> Str(<<"m">>), email |-> Str(<<"b">>), password |-> Str(<<"q">>)]}
OneCouponBody == {[code |-> Save10Lower, discountPercentage |-> Num(10)]}

OneBookBodies ==
  {[NoBookFields EXCEPT !.title = Str(<<"t">>), !.price = Num(1), !.authorId = a] :
     a \in IdsOf(Data.authors)}

OneReviewBodies ==
  [userId : IdsOf(Data.users), bookId : IdsOf(Data.books),
   rating : {Num(5)}, comment : {Undefined}]

OneOrderBodies ==
  {[userId |-> u, items |-> Arr(<<[bookId |-> b, quantity |-> Num(1)]>>)] :
     u \in IdsOf(Data.users), b \in IdsOf(Data.books)}

NextDeletes ==
  \/ nextId <= MaxAdded /\ PostAuthors(OneAuthorBody)
  \/ nextId <= MaxAdded /\ PostBooks(OneBookBodies)
  \/ nextId <= MaxAdded /\ PostUsers(OneUserBody)
  \/ nextId <= MaxAdded /\ PostCategories(OneNameBody)
  \/ nextId <= MaxAdded /\ PostPublishers(OnePublisherBody)
  \/ nextId <= MaxAdded /\ PostReviews(OneReviewBodies)
  \/ nextId <= MaxAdded /\ PostOrders(OneOrderBodies)
  \/ nextId <= MaxAdded /\ PostCoupons(OneCouponBody)
  \/ DeleteAuthors
  \/ DeleteBooks
  \/ DeleteUsers
  \/ DeleteCategories
  \/ DeletePublishers
  \/ DeleteReviews
  \/ DeleteOrders
  \/ DeleteCoupons

SpecDeletes == InitReads /\ [][NextDeletes]_vars

DeleteRoutes ==
  {"DELETE /authors/:id", "DELETE /books/:id", "DELETE /users/:id",
   "DELETE /categories/:id", "DELETE /publishers/:id", "DELETE /reviews/:id",
   "DELETE /orders/:id", "DELETE /coupons/:id"}

\* C13: for every entity type, a delete of an id that is not in the type's
\* collection answers not-found and leaves the persisted document as it was
\* (so the second delete of an id answers not-found).
C13_DeleteAbsentNotFound ==
  [][\A op \in DeleteRoutes :
       (resp'.op = op /\ ~HasId(Data[RouteCollection(op)], resp'.id))
         => /\ resp'.status = 404
            /\ readData(file').data = Data
            /\ file.exists => file' = file]_vars

\* The delete routes no guard is meant to stand before
UnguardedDeletes ==
  {"DELETE /users/:id", "DELETE /books/:id", "DELETE /reviews/:id",
   "DELETE /orders/:id", "DELETE /coupons/:id"}

\* C21: a delete of an existing User, Book, Review, Order or Coupon answers
\* no-content and removes the record, whatever records reference it; every
\* other record of the document stays as it was.
C21_DeleteUnconditional ==
  [][\A op \in UnguardedDeletes :
       (resp'.op = op /\ HasId(file.doc[RouteCollection(op)], resp'.id))
         => RemovesOnly(RouteCollection(op))]_vars

\* A User has been deleted while a Review of that User remains
C21_Witness ==
  /\ resp.op = "DELETE /users/:id" /\ resp.status = 204
  /\ \E i \in 1..Len(file.doc.reviews) : file.doc.reviews[i].userId = resp.id

---------------------------------------------------------------------------
\* Updates of every entity type, on a document that holds records of each:
\* an Author, a Category, a Publisher, a Book of the three, two Users, a
\* Review, an Order and a Coupon

SeedCategory ==
  [id |-> uuidv4(-6), name |-> Str(<<"c">>), createdAt |-> SeedTime,
   updatedAt |-> Undefined]

SeedPublisher ==
  [id |-> uuidv4(-7), name |-> Str(<<"p">>), foundationYear |-> Null,
   createdAt |-> SeedTime, updatedAt |-> Undefined]

SeedOtherUser ==
  [id |-> uuidv4(-8), name |-> Str(<<"n">>), email |-> Str(<<"b">>),
   password |-> Str(<<"p">>), createdAt |-> SeedTime, updatedAt |-> Undefined]

SeedCoupon ==
  [id |-> uuidv4(-9), code |-> Str(<<"S", "A", "V", "E", "1", "0">>),
   discountPercentage |-> Num(10), createdAt |-> SeedTime, updatedAt |-> Undefined]

SeedOrder ==
  [id |-> uuidv4(-10), userId |-> uuidv4(-4),
   items |-> Arr(<<[bookId |-> uuidv4(-2), quantity |-> Num(1)]>>),
   total |-> Num(10), status |-> Str(<<"pending">>),
   createdAt |-> SeedTime, updatedAt |-> Undefined]

UpdatesDoc ==
  [authors |-> <<SeedAuthor>>,
   books |-> <<[SeedBook(-2, 10) EXCEPT !.categoryId = uuidv4(-6),
                                        !.publisherId = uuidv4(-7)]>>,
   users |-> <<SeedUser, SeedOtherUser>>,
   categories |-> <<SeedCategory>>,
   publishers |-> <<SeedPublisher>>,
   reviews |-> <<SeedReview>>,
   orders |-> <<SeedOrder>>,
   coupons |-> <<SeedCoupon>>]

InitUpdates ==
  /\ file = FileOf(UpdatesDoc)
  /\ nextId = 1
  /\ resp = [op |-> "none", id |-> NoId, key |-> Undefined, status |-> 0]
  /\ refused = {}
  /\ sent = NoJson
  /\ pending = [c \in Clients |-> Idle]

\* Every collection but coll is as in UpdatesDoc: a run updates the records
\* of one collection
OnlyTouched(coll) == \A c \in DOMAIN Data \ {coll} : Data[c] = UpdatesDoc[c]

UpdAuthorBodies ==
  [name : {Undefined, Str(<<"z">>)}, biography : {Undefined, Str(<<" ", "d">>)},
   nationality : {Undefined, Null}]

\* Nothing; a title alone, valid or blank; a title and then an authorId that
\* names no Author, or a negative price; a price and a description; one of
\* categoryId and publisherId: null, an id of the collection, or another id
UpdBookBodies ==
  {NoBookFields,
   [NoBookFields EXCEPT !.title = Str(<<"u">>)],
   [NoBookFields EXCEPT !.title = Str(<<" ">>)],
   [NoBookFields EXCEPT !.title = Str(<<"u">>), !.authorId = UnknownId],
   [NoBookFields EXCEPT !.title = Str(<<"u">>), !.price = Num(-1)],
   [NoBookFields EXCEPT !.price = Num(7), !.description = Str(<<"d", " ">>)]}
  \cup {[NoBookFields EXCEPT !.categoryId = v] : v \in {Null} \cup RefsTo(Data.categories)}
  \cup {[NoBookFields EXCEPT !.publisherId = v] : v \in {Null} \cup RefsTo(Data.publishers)}

UpdUserBodies ==
  [name : {Undefined, Str(<<"m">>)},
   email : {Undefined, Str(<<"a">>), Str(<<" ", "a", " ">>), Str(<<"b">>)},
   password : {Undefined}]

UpdCouponBodies ==
  [code : {Undefined, Str(<<" ", "b">>)},
   discountPercentage : {Undefined, Num(50), Num(101)}]

UpdNameBodies == [name : {Undefined, Str(<<"k">>)}]

UpdPublisherBodies ==
  [name : {Undefined, Str(<<"k">>)}, foundationYear : {Undefined, Str(<<"2">>)}]

UpdReviewBodies == [rating : {Undefined, Num(3), Num(6)}, comment : {Undefined, Num(1)}]

UpdOrderBodies == [status : {Undefined, Str(<<"paid", " ">>), Str(<<" ">>)}]

NextUpdates ==
  \/ OnlyTouched("authors") /\ Put("PUT /authors/:id", UpdAuthorBodies, putAuthors)
  \/ OnlyTouched("books") /\ Put("PUT /books/:id", UpdBookBodies, putBooks)
  \/ OnlyTouched("users") /\ Put("PUT /users/:id", UpdUserBodies, putUsers)
  \/ OnlyTouched("categories")
     /\ Put("PUT /categories/:id", UpdNameBodies, putCategories)
  \/ OnlyTouched("publishers")
     /\ Put("PUT /publishers/:id", UpdPublisherBodies, putPublishers)
  \/ OnlyTouched("reviews") /\ Put("PUT /reviews/:id", UpdReviewBodies, putReviews)
  \/ OnlyTouched("orders") /\ Put("PUT /orders/:id", UpdOrderBodies, putOrders)
  \/ OnlyTouched("coupons") /\ Put("PUT /coupons/:id", UpdCouponBodies, putCoupons)

SpecUpdates == InitUpdates /\ [][NextUpdates]_vars

PutRoutes ==
  {"PUT /authors/:id", "PUT /books/:id", "PUT /users/:id", "PUT /categories/:id",
   "PUT /publishers/:id", "PUT /reviews/:id", "PUT /orders/:id", "PUT /coupons/:id"}

\* The step is an update, on route op, of a record that exists
Updates(op) == resp'.op = op /\ HasId(Data[RouteCollection(op)], resp'.id)

\* The update carries a valid title and then an authorId that names no
\* Author, or a price that is not valid
TitleThenBadField ==
  /\ Updates("PUT /books/:id")
  /\ isValidString(resp'.key.title)
  /\ \/ ~IsUndef(resp'.key.authorId) /\ ~HasId(Data.authors, resp'.key.authorId)
     \/ ~IsUndef(resp'.key.price) /\ ~isValidPrice(resp'.key.price)

\* The update carries a valid name and then the email of another User
NameThenTakenEmail ==
  /\ Updates("PUT /users/:id")
  /\ isValidString(resp'.key.name)
  /\ isValidString(resp'.key.email)
  /\ \E i \in 1..Len(Users) :
       Users[i].id # resp'.id /\ Users[i].email = Str(Trim(resp'.key.email.s))

\* The update carries a valid code and then a discount that is not valid
CodeThenBadDiscount ==
  /\ Updates("PUT /coupons/:id")
  /\ isValidString(resp'.key.code)
  /\ ~IsUndef(resp'.key.discountPercentage)
  /\ ~validDiscount(resp'.key.discountPercentage)

\* C14: an update whose earlier field is valid and whose later field fails
\* validation is answered with an error and leaves the persisted document,
\* the valid field of the record included, as it was for every later read.
C14_FailedUpdateKeepsRecord ==
  [][(TitleThenBadField \/ NameThenTakenEmail \/ CodeThenBadDiscount)
       => /\ resp'.status = 400
          /\ file' = file
          /\ readData(file').data = Data]_vars

\* An update with a new title and an authorId that names no Author has been
\* rejected, and the Book still has its old title
C14_Witness ==
  /\ resp.op = "PUT /books/:id" /\ resp.status = 400
  /\ resp.key.title = Str(<<"u">>) /\ resp.key.authorId = UnknownId
  /\ \E i \in 1..Len(Books) :
       Books[i].id = resp.id /\ Books[i].title = Str(<<"t">>)

\* The request left field f out
Absent(body, f) == f \notin DOMAIN body \/ IsUndef(body[f])

\* C15: a successful update changes, on the record of the path, only fields
\* the request carries and the update timestamp, and changes no other record;
\* for a Book an absent categoryId or publisherId is left as it was and an
\* explicit null sets it to null.
C15_UpdateChangesOnlySent ==
  [][\A op \in PutRoutes :
       (resp'.op = op /\ resp'.status = 200)
         => LET coll == RouteCollection(op)
                idx == IndexOfId(Data[coll], resp'.id)
                old == Data[coll][idx]
                new == file'.doc[coll][idx]
            IN /\ file'.doc = [Data EXCEPT ![coll][idx] = new]
               /\ \A f \in DOMAIN old \ {"updatedAt"} :
                    Absent(resp'.key, f) => new[f] = old[f]
               /\ op = "PUT /books/:id"
                    => \A f \in {"categoryId", "publisherId"} :
                         resp'.key[f] = Null => new[f] = Null]_vars

\* An update with categoryId null and no publisherId has succeeded: the Book
\* has no Category and still has its Publisher
C15_Witness ==
  /\ resp.op = "PUT /books/:id" /\ resp.status = 200
  /\ resp.key.categoryId = Null /\ IsUndef(resp.key.publisherId)
  /\ \E i \in 1..Len(Books) :
       /\ Books[i].id = resp.id
       /\ Books[i].categoryId = Null
       /\ Books[i].publisherId = SeedPublisher.id

\* The update gives a User, as email, the email that User has (blanks around
\* it or not), with a name that is valid or left out
KeepsOwnEmail ==
  /\ Updates("PUT /users/:id")
  /\ isValidString(resp'.key.email)
  /\ Users[IndexOfId(Users, resp'.id)].email = Str(Trim(resp'.key.email.s))
  /\ IsUndef(resp'.key.name) \/ isValidString(resp'.key.name)

\* C19: an update of a User with that User's own current email succeeds, the
\* email being in the users collection notwithstanding.
C19_OwnEmailAccepted ==
  [][KeepsOwnEmail
       => /\ resp'.status = 200
          /\ file'.doc.users[IndexOfId(Users, resp'.id)].email
               = Users[IndexOfId(Users, resp'.id)].email]_vars

\* A User has been updated with its own email sent with blanks around it,
\* while another User is persisted
C19_Witness ==
  /\ resp.op = "PUT /users/:id" /\ resp.status = 200
  /\ resp.key.email = Str(<<" ", "a", " ">>)
  /\ Len(Users) = 2
  /\ \E i \in 1..Len(Users) :
       Users[i].id = resp.id /\ Users[i].email = Str(<<"a">>)

---------------------------------------------------------------------------
\* Updates on a document with two records in the collections the updates are
\* tried on, by bodies that also carry an id and a createdAt of their own

SecondAuthor == [SeedAuthor EXCEPT !.id = uuidv4(-11), !.name = Str(<<"b">>)]

SecondReview == [SeedReview EXCEPT !.id = uuidv4(-12), !.rating = Num(2)]

SecondOrder == [SeedOrder EXCEPT !.id = uuidv4(-13), !.status = Str(<<"paid">>)]

FramesDoc ==
  [UpdatesDoc EXCEPT !.authors = <<SeedAuthor, SecondAuthor>>,
                     !.books = Append(@, SeedBook(-3, 5)),
                     !.reviews = <<SeedReview, SecondReview>>,
                     !.orders = <<SeedOrder, SecondOrder>>]

InitFrames ==
  /\ file = FileOf(FramesDoc)
  /\ nextId = 1
  /\ resp = [op |-> "none", id |-> NoId, key |-> Undefined, status |-> 0]
  /\ refused = {}
  /\ sent = NoJson
  /\ pending = [c \in Clients |-> Idle]

\* The body with an id and a createdAt added to it
Forged(body) ==
  [k \in DOMAIN body \cup {"id", "createdAt"} |->
     CASE k = "id" -> UnknownId
       [] k = "createdAt" -> Str(<<"T", "9">>)
       [] OTHER -> body[k]]

\* The bodies of a set, each with an id and a createdAt added
AllForged(Bodies) == {Forged(b) : b \in Bodies}

FrameAuthorBodies ==
  [name : {Str(<<"z">>), Str(<<" ">>)}, biography : {Undefined},
   nationality : {Undefined}]

FrameBookBodies ==
  {[NoBookFields EXCEPT !.title = Str(<<"u">>)],
   [NoBookFields EXCEPT !.title = Str(<<"u">>), !.price = Num(-1)],
   [NoBookFields EXCEPT !.price = Num(7), !.categoryId = Null]}

FrameUserBodies ==
  [name : {Str(<<"m">>)}, email : {Undefined, Str(<<"b">>)}, password : {Undefined}]

FrameNameBodies == [name : {Str(<<"k">>)}]

FramePublisherBodies == [name : {Str(<<"k">>)}, foundationYear : {Str(<<"2">>)}]

FrameReviewBodies == [rating : {Num(3), Num(6)}, comment : {Undefined}]

FrameOrderBodies == [status : {Str(<<"paid", " ">>), Str(<<" ">>)}]

FrameCouponBodies ==
  [code : {Str(<<" ", "b">>)}, discountPercentage : {Num(50), Num(101)}]

\* Every collection but coll is as in FramesDoc
OnlyFramed(coll) == \A c \in DOMAIN Data \ {coll} : Data[c] = FramesDoc[c]

NextFrames ==
  \/ OnlyFramed("authors")
     /\ Put("PUT /authors/:id", AllForged(FrameAuthorBodies), putAuthors)
  \/ OnlyFramed("books") /\ Put("PUT /books/:id", AllForged(FrameBookBodies), putBooks)
  \/ OnlyFramed("users") /\ Put("PUT /users/:id", AllForged(FrameUserBodies), putUsers)
  \/ OnlyFramed("categories")
     /\ Put("PUT /categories/:id", AllForged(FrameNameBodies), putCategories)
  \/ OnlyFramed("publishers")
     /\ Put("PUT /publishers/:id", AllForged(FramePublisherBodies), putPublishers)
  \/ OnlyFramed("reviews")
     /\ Put("PUT /reviews/:id", AllForged(FrameReviewBodies), putReviews)
  \/ OnlyFramed("orders")
     /\ Put("PUT /orders/:id", AllForged(FrameOrderBodies), putOrders)
  \/ OnlyFramed("coupons")
     /\ Put("PUT /coupons/:id", AllForged(FrameCouponBodies), putCoupons)

SpecFrames == InitFrames /\ [][NextFrames]_vars

\* C27: no update request changes the id or the createdAt of a record, or the
\* number or the order of the records of a collection; it changes at most the
\* record whose id is in the path, in the collection of its route, and every
\* other record of the document stays identical.
C27_UpdateFrame ==
  [][\A op \in PutRoutes :
       resp'.op = op
         => \A c \in DOMAIN file.doc :
              /\ Len(file'.doc[c]) = Len(file.doc[c])
              /\ \A i \in 1..Len(file.doc[c]) :
                   /\ file'.doc[c][i].id = file.doc[c][i].id
                   /\ file'.doc[c][i].createdAt = file.doc[c][i].createdAt
                   /\ (c # RouteCollection(op) \/ file.doc[c][i].id # resp'.id)
                        => file'.doc[c][i] = file.doc[c][i]]_vars

\* An update whose body carries an id and a createdAt has succeeded on the
\* second Author: the record is still second, has the new name and keeps its
\* id and createdAt
C27_Witness ==
  /\ resp.op = "PUT /authors/:id" /\ resp.status = 200
  /\ "id" \in DOMAIN resp.key
  /\ resp.id = SecondAuthor.id
  /\ Len(file.doc.authors) = 2
  /\ file.doc.authors[2].id = SecondAuthor.id
  /\ file.doc.authors[2].name = Str(<<"z">>)
  /\ file.doc.authors[2].createdAt = SeedTime
  /\ file.doc.authors[1] = SeedAuthor

---------------------------------------------------------------------------
\* Creates and updates of the numeric fields, on the document of the updates.
\* A JSON body carries numbers only; 1e999 is one, and JSON.parse reads it as
\* Infinity.

RangePrices == {Num(-1), Num(0), Num(7), Infinity}
RangeRatings == {Num(0), Num(1), Num(5), Num(6), Infinity}
RangeDiscounts == {Num(0), Num(1), Num(100), Num(101), Infinity}

RangeBookPostBodies ==
  {[NoBookFields EXCEPT !.title = Str(<<"t">>), !.price = p, !.authorId = a] :
     p \in RangePrices, a \in IdsOf(Data.authors)}

RangeBookPutBodies == {[NoBookFields EXCEPT !.price = p] : p \in RangePrices}

RangeReviewPostBodies ==
  [userId : {uuidv4(-4)}, bookId : {uuidv4(-2)}, rating : RangeRatings,
   comment : {Undefined}]

RangeReviewPutBodies == [rating : RangeRatings, comment : {Undefined}]

RangeCouponPostBodies == [code : {Str(<<"b">>)}, discountPercentage : RangeDiscounts]

RangeCouponPutBodies == [code : {Undefined}, discountPercentage : RangeDiscounts]

\* A run creates and updates the records of one collection
NextRanges ==
  \/ OnlyTouched("books") /\ nextId <= MaxAdded /\ PostBooks(RangeBookPostBodies)
  \/ OnlyTouched("books") /\ PutBooks(RangeBookPutBodies)
  \/ OnlyTouched("reviews") /\ nextId <= MaxAdded
     /\ PostReviews(RangeReviewPostBodies)
  \/ OnlyTouched("reviews") /\ PutReviews(RangeReviewPutBodies)
  \/ OnlyTouched("coupons") /\ nextId <= MaxAdded
     /\ PostCoupons(RangeCouponPostBodies)
  \/ OnlyTouched("coupons") /\ PutCoupons(RangeCouponPutBodies)

SpecRanges == InitUpdates /\ [][NextRanges]_vars

\* v is a number, and not NaN or Infinity
Finite(v) == v.t = "number" /\ v.s = <<>>

PricesInRange ==
  \A i \in 1..Len(Books) : Finite(Books[i].price) /\ Books[i].price.n >= 0

Reviews == file.doc.reviews

RatingsInRange ==
  \A i \in 1..Len(Reviews) :
    Finite(Reviews[i].rating) /\ Reviews[i].rating.n >= 1 /\ Reviews[i].rating.n <= 5

DiscountsInRange ==
  \A i \in 1..Len(Coupons) :
    /\ Finite(Coupons[i].discountPercentage)
    /\ Coupons[i].discountPercentage.n > 0
    /\ Coupons[i].discountPercentage.n <= 100

\* C23: after any sequence of create and update requests every persisted Book
\* has a price >= 0, every persisted Review a rating from 1 to 5 and every
\* persisted Coupon a discountPercentage above 0 and at most 100.
C23_ValuesInRange == PricesInRange /\ RatingsInRange /\ DiscountsInRange

---------------------------------------------------------------------------
\* Reads whose expand names relations that do not exist, next to reads with no
\* expand and with a relation's name; deletes leave references unresolved.

Plural == <<"s">>

\* req.query.expand: absent, a relation, other names, several names
ExpandNames ==
  {Undefined, Str(WordAuthor), Str(WordUser), Str(<<"x">>),
   Str(WordAuthor \o Plural), Str(WordUser \o Plural),
   Str(<<"x">> \o Comma \o WordBook \o Plural)}

NextExpands ==
  \/ GetBooks(ExpandNames)
  \/ GetBooksId(ExpandNames)
  \/ GetReviews(ExpandNames)
  \/ DeleteBooks
  \/ DeleteUsers

SpecExpands == InitReads /\ [][NextExpands]_vars

\* The names of an expand value: the pieces between its commas
RECURSIVE NamesOf(_)
NamesOf(chars) ==
  IF \E i \in 1..Len(chars) : chars[i] = ","
  THEN LET i == CHOOSE j \in 1..Len(chars) :
                  chars[j] = "," /\ \A k \in 1..(j - 1) : chars[k] # ","
       IN {SubSeq(chars, 1, i - 1)} \cup NamesOf(SubSeq(chars, i + 1, Len(chars)))
  ELSE {chars}

\* The last response is a successful read on route op whose expand is made
\* only of names that are none of words
UnknownNamesOnly(op, words) ==
  /\ resp.op = op /\ resp.status = 200
  /\ resp.key.t = "string" /\ resp.key.s # <<>>
  /\ NamesOf(resp.key.s) \cap words = {}

\* C24: a read whose expand is made only of names that are not exactly a
\* relation's name (author, category, publisher for Books; user, book for
\* Reviews) answers what the same read answers with no expand.
C24_UnknownNamesIgnored ==
  /\ UnknownNamesOnly("GET /books", {WordAuthor, WordCategory, WordPublisher})
       => sent = Stringify(getBooks(file.doc, Undefined).json)
  /\ UnknownNamesOnly("GET /books/:id", {WordAuthor, WordCategory, WordPublisher})
       => sent = Stringify(getBooksId(file.doc, resp.id, Undefined).json)
  /\ UnknownNamesOnly("GET /reviews", {WordUser, WordBook})
       => sent = Stringify(getReviews(file.doc, Undefined).json)

---------------------------------------------------------------------------
\* Overlapping requests.  A handler awaits readData and later writeData, and
\* other requests run while it waits: the request of a client takes two
\* steps, the read of the document (with everything the handler does up to
\* its call of writeData) and the completion of the write with the response.

\* landed refusing to write over a document that is no longer the one read
landedIfUnchanged(f, p) ==
  IF p.write /\ f.doc = p.snap THEN writeData(p.data) ELSE f

\* landed writing only the collection of the handler's route into the
\* document of the moment
landedPerCollection(f, p) ==
  IF p.write
  THEN writeData([f.doc EXCEPT ![RouteCollection(p.op)] = p.data[RouteCollection(p.op)]])
  ELSE f

\* The file once writeData, if the handler called it, has completed
landed(f, p) == IF p.write THEN writeData(p.data) ELSE f

\* Client c's request reads the document; what the handler will write and
\* answer is kept in pending[c], with the document it read (snap)
Begins(c, op, id, key, pre, r) ==
  /\ pending[c] = Idle
  /\ (pre = 0 /\ r.status = 201) => nextId <= MaxIds
  /\ pending' = [pending EXCEPT ![c] =
                   [op |-> op, id |-> id, key |-> key,
                    status |-> IF pre # 0 THEN pre ELSE r.status,
                    write |-> pre = 0 /\ r.write,
                    data |-> r.data,
                    snap |-> Data,
                    json |-> IF pre # 0 THEN Failure
                             ELSE Stringify(resJson(op, id, r)),
                    overtaken |-> FALSE]]
  /\ file' = IF pre # 0 THEN file ELSE readData(file).file
  /\ nextId' = IF pre = 0 /\ r.status = 201 THEN nextId + 1 ELSE nextId
  /\ UNCHANGED <<resp, refused, sent>>

\* Client c's write completes and its response is sent; a request that has
\* read and not yet written is marked overtaken when another one writes
Completes(c) ==
  /\ pending[c] # Idle
  /\ file' = landed(file, pending[c])
  /\ resp' = [op |-> pending[c].op, id |-> pending[c].id, key |-> pending[c].key,
              status |-> pending[c].status]
  /\ sent' = pending[c].json
  /\ pending' = [d \in Clients |->
                   IF d = c THEN Idle
                   ELSE IF pending[d] # Idle /\ pending[c].write
                   THEN [pending[d] EXCEPT !.overtaken = TRUE]
                   ELSE pending[d]]
  /\ UNCHANGED <<nextId, refused>>

BeginsPostAuthors(Bodies) ==
  \E c \in Clients, body \in Bodies, now \in Times :
    Begins(c, "POST /authors", NoId, Undefined, postAuthorsPre(body),
           postAuthors(Data, body, uuidv4(nextId), now))

BeginsPutAuthors(Bodies) ==
  \E c \in Clients, id \in PathIds, body \in Bodies, now \in Times :
    Begins(c, "PUT /authors/:id", id, Undefined, 0, putAuthors(Data, id, body, now))

RaceAuthorBodies ==
  [name : {Str(<<"a">>), Str(<<"b">>)}, biography : {Undefined},
   nationality : {Undefined}]

NextRace ==
  \/ nextId <= MaxAdded /\ BeginsPostAuthors(RaceAuthorBodies)
  \/ BeginsPutAuthors(RaceAuthorBodies)
  \/ \E c \in Clients : Completes(c)

SpecRace == Init /\ [][NextRace]_vars

\* The step completes a request of client c that wrote
Writes(c) == pending[c] # Idle /\ pending'[c] = Idle /\ pending[c].write

\* C16: when two mutating requests have both read the document before either
\* wrote it, both are answered with success, and once the second write has
\* completed the persisted document is the one the second writer built from
\* what it had read: what the first writer wrote is gone (an Author it
\* created is not persisted), and no error is reported.
C16_LastWriterWins ==
  [][\A c \in Clients :
       /\ Writes(c) => resp'.status \in {200, 201}
       /\ (Writes(c) /\ pending[c].overtaken)
            => /\ file'.doc = pending[c].data
               /\ \A a \in IdsOf(file.doc.authors) \ IdsOf(pending[c].snap.authors) :
                    ~HasId(file'.doc.authors, a)]_vars

\* Two creates of an Author have been answered (uuidv4 was called twice, and
\* a create that reaches uuidv4 is answered 201), no request is in flight, no
\* request of this specification deletes, and one Author is persisted
C16_Witness ==
  /\ nextId = 3
  /\ \A c \in Clients : pending[c] = Idle
  /\ resp.op = "POST /authors" /\ resp.status = 201
  /\ Len(file.doc.authors) = 1
  /\ file.doc.authors[1].id = sent.id

---------------------------------------------------------------------------
\* Overlapping creates and deletes of Books and deletes of Authors, on a
\* document that holds an Author, a Book of that Author and a User

BeginsPostBooks(Bodies) ==
  \E c \in Clients, body \in Bodies, now \in Times :
    Begins(c, "POST /books", NoId, body.authorId, postBooksPre(body),
           postBooks(Data, body, uuidv4(nextId), now))

BeginsDeleteBooks ==
  \E c \in Clients, id \in PathIds :
    Begins(c, "DELETE /books/:id", id, Undefined, 0, deleteBooks(Data, id))

BeginsDeleteAuthors ==
  \E c \in Clients, id \in PathIds :
    Begins(c, "DELETE /authors/:id", id, Undefined, 0, deleteAuthors(Data, id))

NextRaceRefs ==
  \/ nextId <= MaxAdded /\ BeginsPostBooks(OneBookBodies)
  \/ BeginsDeleteBooks
  \/ BeginsDeleteAuthors
  \/ \E c \in Clients : Completes(c)

SpecRaceRefs == InitOrders /\ [][NextRaceRefs]_vars

\* C26: also when handlers interleave at their awaits, every Book of the
\* persisted document has an authorId that is the id of a persisted Author;
\* a delete of an Author that overlaps a create of a Book of that Author
\* never leaves the Book persisted without the Author.
C26_AuthorIdResolvesInRace ==
  \A i \in 1..Len(file.doc.books) :
    HasId(file.doc.authors, file.doc.books[i].authorId)

\* A create of a Book has been answered 201 while a delete of the Book's
\* Author, which has read the document and will be answered 204, has not yet
\* written
C26_Witness ==
  /\ resp.op = "POST /books" /\ resp.status = 201
  /\ \E c \in Clients :
       /\ pending[c] # Idle
       /\ pending[c].op = "DELETE /authors/:id"
       /\ pending[c].status = 204
       /\ pending[c].id = resp.key

---------------------------------------------------------------------------
\* Storage failures: fs.readFile fails with a code other than ENOENT, or
\* data.json does not parse, or fs.writeFile fails; readData or writeData
\* throws inside the handler.

PostRoutes ==
  {"POST /authors", "POST /books", "POST /users", "POST /categories",
   "POST /publishers", "POST /reviews", "POST /orders", "POST /coupons"}

Routes == PostRoutes \cup GetRoutes \cup PutRoutes \cup DeleteRoutes

\* The routes with :id in the path
ByIdRoutes ==
  PutRoutes \cup DeleteRoutes
  \cup {"GET /books/:id", "GET /users/:id"}
  \cup {ByIdRoute(coll) : coll \in PlainCollections}

\* The handler's body is inside try { } catch: every create, update and
\* delete handler; no list or get-by-id handler
Caught(op) == op \notin GetRoutes

\* What the error page of the framework's own error handler looks like
ErrorPage == [html |-> Str(<<"Internal Server Error">>)]

\* Kept in resp.key: the request met a storage failure
StorageError == Str(<<"EACCES">>)

\* The outcomes of a throw.  Inside try/catch the handler answers 500 with
\* { error: 'Erro interno' }.  Elsewhere the promise of the async handler is
\* rejected with nobody awaiting it: express 4 sends nothing (status 0 here),
\* express 5 hands the error to its error handler, which answers 500 with
\* its own page; the source does not pin the version.
Outcomes(op) ==
  IF Caught(op) THEN {[status |-> 500, json |-> InternalError]}
  ELSE {[status |-> 0, json |-> NoJson], [status |-> 500, json |-> ErrorPage]}

\* A request on route op in which readData or writeData throws: nothing is
\* written
Throws(op, id) ==
  \E out \in Outcomes(op) :
    /\ resp' = [op |-> op, id |-> id, key |-> StorageError, status |-> out.status]
    /\ sent' = out.json
    /\ UNCHANGED <<file, nextId, refused, pending>>

StorageFails ==
  \E op \in Routes :
    \E id \in IF op \in ByIdRoutes THEN PathIds ELSE {NoId} : Throws(op, id)

NextFaults ==
  \/ StorageFails
  \/ GetList
  \/ GetById
  \/ nextId <= MaxAdded /\ PostAuthors(OneAuthorBody)
  \/ DeleteAuthors
  \/ DeleteReviews

SpecFaults == InitReads /\ [][NextFaults]_vars

\* C17: for every operation, reads as well as writes, a request that meets a
\* storage failure other than a missing file is answered with an
\* internal-error response; none is left without a response.
C17_StorageFailureAnswered ==
  resp.key = StorageError => resp.status = 500

---------------------------------------------------------------------------
\* The first requests of a run that finds no data.json: every route, with a
\* body that passes the validation and one that does not

FirstAuthorBodies ==
  OneAuthorBody
  \cup {[name |-> Str(<<" ">>), biography |-> Undefined, nationality |-> Undefined]}

FirstNameBodies == OneNameBody \cup {[name |-> Undefined]}

FirstPublisherBodies ==
  OnePublisherBody \cup {[name |-> Undefined, foundationYear |-> Undefined]}

FirstUserBodies ==
  OneUserBody \cup {[name |-> Undefined, email |-> Undefined, password |-> Undefined]}

FirstCouponBodies ==
  OneCouponBody \cup {[code |-> Undefined, discountPercentage |-> Num(10)]}

FirstBookBodies ==
  {[NoBookFields EXCEPT !.title = Str(<<"t">>), !.price = Num(1), !.authorId = a] :
     a \in RefsTo(Data.authors)}
  \cup {NoBookFields}

FirstReviewBodies ==
  [userId : RefsTo(Data.users), bookId : RefsTo(Data.books),
   rating : {Num(5), Num(6)}, comment : {Undefined}]

FirstOrderBodies ==
  {[userId |-> u, items |-> Arr(<<[bookId |-> b, quantity |-> Num(1)]>>)] :
     u \in RefsTo(Data.users), b \in RefsTo(Data.books)}
  \cup {[userId |-> Undefined, items |-> Undefined]}

NextFirst ==
  \/ nextId <= MaxAdded /\ PostAuthors(FirstAuthorBodies)
  \/ nextId <= MaxAdded /\ PostBooks(FirstBookBodies)
  \/ nextId <= MaxAdded /\ PostUsers(FirstUserBodies)
  \/ nextId <= MaxAdded /\ PostCategories(FirstNameBodies)
  \/ nextId <= MaxAdded /\ PostPublishers(FirstPublisherBodies)
  \/ nextId <= MaxAdded /\ PostReviews(FirstReviewBodies)
  \/ nextId <= MaxAdded /\ PostOrders(FirstOrderBodies)
  \/ nextId <= MaxAdded /\ PostCoupons(FirstCouponBodies)
  \/ PutAuthors(OneAuthorBody)
  \/ PutBooks({NoBookFields})
  \/ PutUsers(OneUserBody)
  \/ PutCategories(OneNameBody)
  \/ PutPublishers(OnePublisherBody)
  \/ PutReviews(UpdReviewBodies)
  \/ PutOrders(OrderPutBodies)
  \/ PutCoupons(OneCouponBody)
  \/ DeleteAuthors
  \/ DeleteBooks
  \/ DeleteUsers
  \/ DeleteCategories
  \/ DeletePublishers
  \/ DeleteReviews
  \/ DeleteOrders
  \/ DeleteCoupons
  \/ GetBooks({Undefined, Str(WordAuthor)})
  \/ GetBooksId({Undefined})
  \/ GetReviews({Undefined, Str(WordUser)})
  \/ GetUsers
  \/ GetUsersId
  \/ GetList
  \/ GetById

SpecFirst == Init /\ [][NextFirst]_vars

\* The step leaves a persisted document with the eight lists, all empty but
\* for the record the request itself has created
StartsEmpty ==
  /\ file'.exists
  /\ DOMAIN file'.doc
       = {"authors", "books", "users", "categories", "publishers", "reviews",
          "orders", "coupons"}
  /\ \A c \in DOMAIN file'.doc :
       \/ file'.doc[c] = <<>>
       \/ /\ resp'.op \in PostRoutes /\ resp'.status = 201
          /\ c = RouteCollection(resp'.op)
          /\ Len(file'.doc[c]) = 1

====
